---- MODULE Spec2Model ----
(***************************************************************************)
(* CollectionGroupingEnhancer (collection-grouping-enhancer custom         *)
(* element) together with the part of FacetFilters that emits the          *)
(* on:facet-filters:updated signal.                                        *)
(*                                                                         *)
(* JavaScript is single threaded: one action of this module is one task    *)
(* of the event loop, i.e. the code executed between two suspension points *)
(* that wait for a timer or for the network.  Awaits that are resolved by  *)
(* microtasks only (fetchCard, a rejected query() promise) do not end an   *)
(* action.                                                                 *)
(***************************************************************************)
EXTENDS Integers, Sequences, FiniteSets, TLC

\* ------------------------------------------------------------------ bounds
NumRecords == 5          \* records in the catalog
PageSize == 3            \* BATCH_SIZE (250 in the source), scaled down
RenderBatchSize == 2     \* RENDER_BATCH_SIZE (50 in the source), scaled down
MaxProducts == 9         \* the 5000 cap of the fetch loop, scaled down
MaxFilterUpdates == 2    \* successful FacetFilters.applyFilters responses
MaxActiveRuns == 2       \* runs that have not ended, at any time
TickMs == 150            \* granularity of the clock

\* ------------------------------------------------------- program constants
DebounceMs == 300

\* ---------------------------------------------------------------- domains
Ids == 1..NumRecords
NoKey == ""
GroupKeys == {"K", "L"}
NoGroup == [mainProduct |-> 0, variantProducts |-> <<>>, allProducts |-> <<>>]
NoGrid == 0
NoRequest == 0
NoProduct == 0
NoBadCard == 0
\* applyFilters calls of a visit seen from the filter form (at least MaxFilterUpdates)
MaxFacetCalls == 3

\* the list of the page as Liquid rendered it and the lists of the responses
Grids == 1..(MaxFacetCalls + 1)
Runs == 1..(MaxFilterUpdates + 1)
LiquidCard == [run |-> 0, type |-> "liquid", product |-> 0,
               variantProducts |-> <<>>, originalIndex |-> 0, copies |-> 0]

VARIABLES
  \* the page (fixed after construction)
  products,              \* id -> the record of the catalog (the node of the API response)
  keyOf,                 \* id -> GroupKey of the record, NoKey when artist or album is empty
  scoreOf,               \* id -> the score of the record for the search terms of the page
  filterParams,          \* the filter parameters of the page's URL
  isSearchMode,          \* this.isSearchMode
  hasToken,              \* StorefrontAPIClient.token is set
  hasA11y,               \* window.accessibilityEnhancer is defined
  sinkThrows,            \* the announce methods of the accessibility enhancer throw
  badCard,               \* the record renderCardFromData yields no card for, or NoBadCard
  \* CollectionGroupingEnhancer fields
  isEnhancing,           \* this.isEnhancing
  useJsGrouping,         \* this.useJsGrouping
  filterUpdateTimeout,   \* this.filterUpdateTimeout is a pending timer
  renderedProductIds,    \* this.renderedProductIds
  groupMap,              \* this.groupMap : key -> group, NoGroup when absent
  productMap,            \* this.productMap, ids in insertion order
  originalProductOrder,  \* this.originalProductOrder : id -> index, -1 when absent
  \* the document
  liveGrid,              \* the grid element document.querySelector finds, NoGrid if none
  gridCards,             \* grid element -> its children, in document order
  gridHidden,            \* grid element -> it is hidden (js-grouping-hidden, display none)
  pendingEvents,         \* on:facet-filters:updated dispatches scheduled by FacetFilters
  filterUpdates,         \* number of applyFilters responses handled so far
  userUpdates,           \* number of filter changes the visitor makes during the visit
  \* the enhance() invocations that passed the guard
  runCount,              \* number of runs started so far; the latest run is runCount
  run,                   \* run -> locals of enhance()/loadProductsProgressively
  initCalled,            \* init() has called enhance()
  \* the debounce of handleFilterUpdate
  handlerGrid,           \* the grid local of the handler that waits for the debounce
  timerAge,              \* ms since the pending debounce timer was set
  \* history
  emitted,               \* run -> RenderItems returned by groupProductsIncremental
  sinceSignal,           \* ms since the last filter-change signal, while a timer is pending
  burstSignals,          \* signals of the burst (gaps < DebounceMs) the last signal belongs to
  \* a call of one of the pure functions, taken by itself
  call,                  \* the function, its arguments and, once it has returned, its result
  \* callers of the element's methods other than the element itself
  furtherCalls,          \* number of enhance() calls made by another script
  \* FacetFilters
  facetRequests,         \* applyFilters call -> how far its request has come
  resultsLoading,        \* this.results carries the class is-loading
  closeBtnLoading,       \* the "Show X results" button is disabled and is-loading
  formOf,                \* the call whose response filled this.form, NoRequest at load
  resultsOf,             \* the call whose response filled this.results, NoRequest at load
  \* MoreFromEnhancer.fetchAndGroupViaStorefrontAPI
  moreTotal,             \* number of products the search of the section matches
  currentProductId,      \* the product of the page, NoProduct when the search misses it
  morePc,                \* where the call is: idle, fetch, stopped, fallback
  moreProducts,          \* products
  moreCursor,            \* cursor: the number of results before the next page
  moreHasNextPage        \* hasNextPage

vars == <<products, keyOf, scoreOf, filterParams, isSearchMode, hasToken, hasA11y, sinkThrows, badCard, isEnhancing, useJsGrouping,
          filterUpdateTimeout, renderedProductIds, groupMap, productMap,
          originalProductOrder, liveGrid, gridCards, gridHidden, pendingEvents,
          filterUpdates, runCount, run, initCalled, handlerGrid, timerAge,
          emitted, sinceSignal, burstSignals, userUpdates, call, furtherCalls,
          facetRequests, resultsLoading, closeBtnLoading, formOf, resultsOf,
          moreTotal, currentProductId, morePc, moreProducts, moreCursor,
          moreHasNextPage>>

pageVars == <<products, keyOf, scoreOf, filterParams, isSearchMode, hasToken, hasA11y, sinkThrows, badCard, userUpdates>>
facetVars == <<facetRequests, resultsLoading, closeBtnLoading, formOf, resultsOf>>
moreVars == <<moreTotal, currentProductId, morePc, moreProducts, moreCursor,
              moreHasNextPage>>
envVars == <<pageVars, call, furtherCalls, facetVars, moreVars>>
sessionVars == <<renderedProductIds, groupMap, productMap, originalProductOrder>>
historyVars == <<emitted, sinceSignal, burstSignals>>

\* ----------------------------------------------------------------- helpers
Min(a, b) == IF a < b THEN a ELSE b

SeqToSet(s) == {s[i] : i \in 1..Len(s)}

InSeq(x, s) == \E i \in 1..Len(s) : s[i] = x

RECURSIVE SelectIn(_, _)
\* Array.prototype.filter with the predicate "is a member of keep"
SelectIn(s, keep) ==
  IF s = <<>> THEN <<>>
  ELSE IF Head(s) \in keep THEN <<Head(s)>> \o SelectIn(Tail(s), keep)
       ELSE SelectIn(Tail(s), keep)

\* ----------------------------------------------------------------- strings
\* A string is the sequence of its characters, each a one-character string.
UpperCaseLetters == <<"A", "B", "C", "D", "E", "F", "G", "H", "I", "J", "K", "L", "M",
                      "N", "O", "P", "Q", "R", "S", "T", "U", "V", "W", "X", "Y", "Z">>
LowerCaseLetters == <<"a", "b", "c", "d", "e", "f", "g", "h", "i", "j", "k", "l", "m",
                      "n", "o", "p", "q", "r", "s", "t", "u", "v", "w", "x", "y", "z">>

\* the characters of the model's strings, in the order of their collation
Collation == <<" ", "\"", "&", ",", "-", "|",
               "0", "1", "2", "3", "4", "5", "6", "7", "8", "9">>
             \o LowerCaseLetters

Characters == SeqToSet(Collation) \cup SeqToSet(UpperCaseLetters)

\* the lower-case form of each character
LowerCaseOf ==
  [c \in Characters |->
     IF \E n \in DOMAIN UpperCaseLetters : UpperCaseLetters[n] = c
     THEN LowerCaseLetters[CHOOSE n \in DOMAIN UpperCaseLetters : UpperCaseLetters[n] = c]
     ELSE c]

\* String.prototype.toLowerCase
toLowerCase(s) == [i \in 1..Len(s) |-> LowerCaseOf[s[i]]]

\* mutant: the string as it is
NoTrim(s) == s

\* String.prototype.trim (the white space of the model's strings is the blank)
trim(s) ==
  LET inked == {i \in 1..Len(s) : s[i] # " "}
  IN  IF inked = {} THEN <<>>
      ELSE SubSeq(s, CHOOSE i \in inked : \A j \in inked : i <= j,
                     CHOOSE i \in inked : \A j \in inked : j <= i)

\* String.prototype.includes
includes(s, sub) ==
  \E i \in 0..(Len(s) - Len(sub)) : SubSeq(s, i + 1, i + Len(sub)) = sub

\* String.prototype.startsWith
startsWith(s, sub) == Len(sub) <= Len(s) /\ SubSeq(s, 1, Len(sub)) = sub

\* ------------------------------------------------------------- getFormat
\* mutant: the box test precedes the tests for 12, 10 and 7
BoxBeforeInches(productType) ==
  LET typeLower == toLowerCase(trim(productType))
  IN  IF productType = <<>> THEN <<>>
      ELSE IF includes(typeLower, <<"b", "o", "x">>)
           THEN IF \/ includes(typeLower, <<"l", "p">>)
                   \/ includes(typeLower, <<"v", "i", "n", "y", "l">>)
                THEN <<"L", "P", " ", "B", "o", "x">>
                ELSE IF includes(typeLower, <<"c", "d">>)
                THEN <<"C", "D", " ", "B", "o", "x">>
                ELSE <<"B", "o", "x", " ", "S", "e", "t">>
      ELSE IF includes(typeLower, <<"1", "2">>) THEN <<"1", "2", "\"">>
      ELSE IF includes(typeLower, <<"1", "0">>) THEN <<"1", "0", "\"">>
      ELSE IF includes(typeLower, <<"7">>) THEN <<"7", "\"">>
      ELSE IF includes(typeLower, <<"l", "p">>) THEN <<"L", "P">>
      ELSE IF includes(typeLower, <<"c", "d">>) THEN <<"C", "D">>
      ELSE IF includes(typeLower, <<"c", "a", "s", "s", "e", "t", "t", "e">>)
           THEN <<"C", "a", "s", "s", "e", "t", "t", "e">>
      ELSE IF includes(typeLower, <<"e", "p">>) THEN <<"E", "P">>
      ELSE IF includes(typeLower, <<"d", "v", "d">>) THEN <<"D", "V", "D">>
      ELSE IF includes(typeLower, <<"b", "l", "u">>)
           THEN <<"B", "l", "u", "-", "r", "a", "y">>
      ELSE IF includes(typeLower, <<"v", "h", "s">>) THEN <<"V", "H", "S">>
      ELSE <<>>

\* the format getFormat derives from product.productType
getFormat(productType) ==
  LET typeLower == toLowerCase(trim(productType))
  IN  IF productType = <<>> THEN <<>>
      ELSE IF includes(typeLower, <<"1", "2">>) THEN <<"1", "2", "\"">>
      ELSE IF includes(typeLower, <<"1", "0">>) THEN <<"1", "0", "\"">>
      ELSE IF includes(typeLower, <<"7">>) THEN <<"7", "\"">>
      ELSE IF includes(typeLower, <<"b", "o", "x">>)
           THEN IF \/ includes(typeLower, <<"l", "p">>)
                   \/ includes(typeLower, <<"v", "i", "n", "y", "l">>)
                THEN <<"L", "P", " ", "B", "o", "x">>
                ELSE IF includes(typeLower, <<"c", "d">>)
                THEN <<"C", "D", " ", "B", "o", "x">>
                ELSE <<"B", "o", "x", " ", "S", "e", "t">>
      ELSE IF includes(typeLower, <<"l", "p">>) THEN <<"L", "P">>
      ELSE IF includes(typeLower, <<"c", "d">>) THEN <<"C", "D">>
      ELSE IF includes(typeLower, <<"c", "a", "s", "s", "e", "t", "t", "e">>)
           THEN <<"C", "a", "s", "s", "e", "t", "t", "e">>
      ELSE IF includes(typeLower, <<"e", "p">>) THEN <<"E", "P">>
      ELSE IF includes(typeLower, <<"d", "v", "d">>) THEN <<"D", "V", "D">>
      ELSE IF includes(typeLower, <<"b", "l", "u">>)
           THEN <<"B", "l", "u", "-", "r", "a", "y">>
      ELSE IF includes(typeLower, <<"v", "h", "s">>) THEN <<"V", "H", "S">>
      ELSE <<>>

\* the groupKey of groupProductsIncremental: `${artist}|${album}|${format}` of the
\* trimmed, lower-cased metafields, or the empty string when the record takes the
\* "if (!artist || !album)" branch
GroupKeyOf(product) ==
  LET artist == trim(product.artist)
      album  == trim(product.albumTitle)
      format == getFormat(product.productType)
  IN  IF artist = <<>> \/ album = <<>> THEN <<>>
      ELSE toLowerCase(artist) \o <<"|">> \o toLowerCase(album) \o <<"|">> \o format

\* ------------------------------------------------------- the remote catalog
\* The records of the catalog are the copies of two releases of one artist and
\* album, the LP and the CD, spelled as the shop's data spells them, and records
\* without artist or album metafield.
ArtistSpelling(i) ==
  IF i % 3 = 1 THEN <<"Y", "e", "s">>
  ELSE IF i % 3 = 2 THEN <<" ", "y", "e", "s", " ">>
  ELSE <<"Y", "E", "S">>

AlbumSpelling(i) ==
  IF i % 3 = 1 THEN <<"U", "p">>
  ELSE IF i % 3 = 2 THEN <<"U", "P", " ">>
  ELSE <<" ", "u", "p">>

LpSpelling(i) ==
  IF i % 3 = 1 THEN <<"L", "P">>
  ELSE IF i % 3 = 2 THEN <<"2", "x", "L", "P">>
  ELSE <<"V", "i", "n", "y", "l", " ", "L", "P">>

CdSpelling(i) ==
  IF i % 3 = 1 THEN <<"C", "D">>
  ELSE IF i % 3 = 2 THEN <<"c", "d", " ", "a", "l", "b", "u", "m">>
  ELSE <<"C", "D", " ">>

Digit(i) == <<"0", "1", "2", "3", "4", "5", "6", "7", "8", "9">>[(i % 10) + 1]

Shapes == {"lp", "cd", "untitled"}

\* The record with id i: an LP copy, a CD copy, or a record whose artist or album
\* metafield is missing or blank.
Record(i, shape) ==
  [id |-> i,
   title |-> (IF i % 2 = 0 THEN <<"U", "p", " ">> ELSE <<"O", "n", " ">>) \o <<Digit(i)>>,
   vendor |-> <<"D", "i", "s", "c", "o">>,
   tags |-> IF i % 2 = 0 THEN <<>> ELSE << <<"u", "p">> >>,
   productType |-> IF shape = "cd" THEN CdSpelling(i) ELSE LpSpelling(i),
   artist |-> IF shape = "piped" THEN <<"Y", "e", "s", "|", "N", "o">>
              ELSE IF shape = "untitled" /\ i % 4 = 1 THEN <<>>
              ELSE IF shape = "untitled" /\ i % 4 = 2 THEN <<" ", " ">>
              ELSE ArtistSpelling(i),
   albumTitle |-> IF shape = "untitled" /\ i % 4 = 3 THEN <<>>
                  ELSE IF shape = "untitled" /\ i % 4 = 0 THEN <<" ">>
                  ELSE AlbumSpelling(i),
   styleGenre |-> IF i % 3 = 0 THEN <<"J", "a", "z", "z">> ELSE <<"R", "o", "c", "k">>,
   mediaCondition |-> <<"N", "M">>,
   sleeveCondition |-> <<"V", "G">>,
   price |-> 10 + i]

Catalogs == {[i \in Ids |-> Record(i, shape[i])] : shape \in [Ids -> Shapes]}

\* The group keys of the catalog's records have names: L is the key of the CD
\* copies, K the key of the other copies, NoKey the empty key
KeyText(k) ==
  IF k = "K" THEN <<"y", "e", "s", "|", "u", "p", "|", "L", "P">>
  ELSE IF k = "L" THEN <<"y", "e", "s", "|", "u", "p", "|", "C", "D">>
  ELSE <<>>

KeyName(key) ==
  IF key = <<>> THEN NoKey ELSE IF key = KeyText("L") THEN "L" ELSE "K"

\* The catalog (collection or search result) holds the records 1..NumRecords in
\* this order; a cursor is the number of records that precede the page.
CatalogPage(cursor) ==
  LET last == Min(cursor + PageSize, NumRecords)
  IN  [records     |-> [i \in 1..(last - cursor) |-> cursor + i],
       hasNextPage |-> last < NumRecords,
       endCursor   |-> last]

\* ------------------------------------------------------- sortByRelevance
\* this.searchTerms of the search page
SearchTerms == <<"u", "p">>

Max(a, b) == IF a > b THEN a ELSE b

\* the index of the first blank of s, Len(s) + 1 when it has none
FirstBlank(s) ==
  IF \E i \in 1..Len(s) : s[i] = " "
  THEN CHOOSE i \in 1..Len(s) : s[i] = " " /\ \A j \in 1..(i - 1) : s[j] # " "
  ELSE Len(s) + 1

RECURSIVE splitWords(_)
\* searchLower.split(/\s+/).filter(w => w.length > 0)
splitWords(s) ==
  IF s = <<>> THEN <<>>
  ELSE IF Head(s) = " " THEN splitWords(Tail(s))
  ELSE <<SubSeq(s, 1, FirstBlank(s) - 1)>> \o splitWords(SubSeq(s, FirstBlank(s), Len(s)))

RECURSIVE countMatchesFrom(_, _, _)
\* the matches of the keyword that start at the index from or later: the
\* leftmost one, then those after its end
countMatchesFrom(text, keyword, from) ==
  LET starts == {i \in from..(Len(text) - Len(keyword) + 1) :
                   SubSeq(text, i, i + Len(keyword) - 1) = keyword}
  IN  IF starts = {} THEN 0
      ELSE 1 + countMatchesFrom(text, keyword,
                                (CHOOSE i \in starts : \A j \in starts : i <= j)
                                  + Len(keyword))

\* textLower.match(regex) with the g flag: the occurrences of the keyword, found
\* from left to right without overlap
countMatches(text, keyword) == countMatchesFrom(text, keyword, 1)

RECURSIVE countKeywordFrequency(_, _)
\* the occurrences of all keywords in the text
countKeywordFrequency(text, keywords) ==
  IF text = <<>> \/ keywords = <<>> THEN 0
  ELSE countMatches(toLowerCase(text), Head(keywords))
       + countKeywordFrequency(text, Tail(keywords))

\* Scores are counted in twentieths of a point, so that every product of the
\* source (x * 0.5, x * 0.3, x * 0.2, x * 0.1, length / 200) is an integer.
\* base * (1 + freq * tenths / 10)
FrequencyScore(base, freq, tenths) == base * (20 + freq * 2 * tenths)

\* getFieldLengthScore: baseScore * Math.max(0, 1 - length / 200), 0 for no text
getFieldLengthScore(fieldText, baseScore) ==
  IF fieldText = <<>> THEN 0
  ELSE (baseScore \div 10) * Max(0, 200 - Len(fieldText))

every(words, text) == \A i \in 1..Len(words) : includes(text, words[i])
some(words, text) == \E i \in 1..Len(words) : includes(text, words[i])

RECURSIVE join(_)
\* tags.join(' ')
join(tags) ==
  IF tags = <<>> THEN <<>>
  ELSE IF Len(tags) = 1 THEN tags[1]
  ELSE tags[1] \o <<" ">> \o join(Tail(tags))

\* "Title (highest weight)"
TitleScore(title, searchLower, searchWords) ==
  LET titleFreq == countKeywordFrequency(title, searchWords)
  IN  IF titleFreq > 0
      THEN (IF includes(title, searchLower) THEN FrequencyScore(1000, titleFreq, 5)
            ELSE IF every(searchWords, title) THEN FrequencyScore(800, titleFreq, 3)
            ELSE FrequencyScore(400, titleFreq, 2))
           + getFieldLengthScore(title, 200)
      ELSE 0

\* "Vendor (medium-high weight)"
VendorScore(vendor, searchLower, searchWords) ==
  LET vendorFreq == countKeywordFrequency(vendor, searchWords)
  IN  IF vendorFreq > 0
      THEN (IF includes(vendor, searchLower) THEN FrequencyScore(500, vendorFreq, 3)
            ELSE IF every(searchWords, vendor) THEN FrequencyScore(300, vendorFreq, 2)
            ELSE FrequencyScore(150, vendorFreq, 1))
           + getFieldLengthScore(vendor, 100)
      ELSE 0

\* "Tags (medium weight)"
TagsScore(tags, searchLower, searchWords) ==
  LET tagsFreq == countKeywordFrequency(tags, searchWords)
  IN  IF tagsFreq > 0
      THEN (IF includes(tags, searchLower) THEN FrequencyScore(300, tagsFreq, 2)
            ELSE IF some(searchWords, tags) THEN FrequencyScore(150, tagsFreq, 1)
            ELSE 0)
           + getFieldLengthScore(tags, 50)
      ELSE 0

\* "ProductType (lower weight)"
ProductTypeScore(productType, searchLower, searchWords) ==
  LET productTypeFreq == countKeywordFrequency(productType, searchWords)
  IN  IF productTypeFreq > 0
      THEN (IF includes(productType, searchLower)
            THEN FrequencyScore(200, productTypeFreq, 2)
            ELSE IF some(searchWords, productType)
            THEN FrequencyScore(100, productTypeFreq, 1)
            ELSE 0)
           + getFieldLengthScore(productType, 30)
      ELSE 0

\* "Artist metafield match (music-specific, very high priority)"
ArtistScore(artist, searchLower, searchWords) ==
  IF artist = <<>> THEN 0
  ELSE IF artist = searchLower THEN 20 * 1500
  ELSE IF includes(artist, searchLower) THEN 20 * 800
  ELSE IF Len(searchWords) > 0 /\ every(searchWords, artist) THEN 20 * 600
  ELSE IF some(searchWords, artist) THEN 20 * 300
  ELSE 0

\* mutant: a penalty smaller than the length bonus of a title
LightPenalty(artist) ==
  IF artist = <<"v", "a", "r", "i", "o", "u", "s">> THEN 20 * 100 ELSE 0

\* "Penalty: Compilations ("Various" artist) should rank lower"
CompilationPenalty(artist) ==
  IF \/ artist = <<"v", "a", "r", "i", "o", "u", "s">>
     \/ startsWith(artist, <<"v", "a", "r", "i", "o", "u", "s", " ">>)
  THEN 20 * 400 ELSE 0

\* "Small penalty: Products with no artist metafield"
MissingArtistPenalty(artist) == IF artist = <<>> THEN 20 * 30 ELSE 0

\* the score of the map callback of sortByRelevance, in twentieths
ScoreOf(product, searchTerms) ==
  LET searchLower == trim(toLowerCase(searchTerms))
      searchWords == splitWords(searchLower)
      artist == trim(toLowerCase(product.artist))
      title == toLowerCase(product.title)
      vendor == toLowerCase(product.vendor)
      tags == join([i \in 1..Len(product.tags) |-> toLowerCase(product.tags[i])])
      productType == toLowerCase(product.productType)
  IN  TitleScore(title, searchLower, searchWords)
      + VendorScore(vendor, searchLower, searchWords)
      + TagsScore(tags, searchLower, searchWords)
      + ProductTypeScore(productType, searchLower, searchWords)
      + ArtistScore(artist, searchLower, searchWords)
      - CompilationPenalty(artist)
      - MissingArtistPenalty(artist)

\* the rank of each lower-case character in the collation
CharRank == [c \in SeqToSet(Collation) |-> CHOOSE n \in DOMAIN Collation : Collation[n] = c]

\* titleA.localeCompare(titleB): -1, 0 or 1, by the first character in which the
\* two differ, the shorter first when one is the beginning of the other
localeCompare(a, b) ==
  LET differ == {i \in 1..Min(Len(a), Len(b)) : a[i] # b[i]}
      first == CHOOSE i \in differ : \A j \in differ : i <= j
  IN  IF differ = {}
      THEN IF Len(a) < Len(b) THEN -1 ELSE IF Len(a) > Len(b) THEN 1 ELSE 0
      ELSE IF CharRank[a[first]] < CharRank[b[first]] THEN -1 ELSE 1

\* mutant: no tie-breaker
ScoreOnlyBefore(a, b) == a.score > b.score

\* the comparator of scoredProducts.sort is negative: a is put before b
SortsBefore(a, b) ==
  \/ a.score > b.score
  \/ /\ a.score = b.score
     /\ localeCompare(toLowerCase(a.product.title), toLowerCase(b.product.title)) < 0

RECURSIVE InsertScored(_, _)
\* Array.prototype.sort is stable: x, which precedes the elements of s in the
\* input, goes before the first element that the comparator does not put before it
InsertScored(x, s) ==
  IF s = <<>> THEN <<x>>
  ELSE IF ~SortsBefore(Head(s), x) THEN <<x>> \o s
       ELSE <<Head(s)>> \o InsertScored(x, Tail(s))

RECURSIVE SortScored(_)
\* scoredProducts.sort(...)
SortScored(scoredProducts) ==
  IF scoredProducts = <<>> THEN <<>>
  ELSE InsertScored(Head(scoredProducts), SortScored(Tail(scoredProducts)))

\* sortByRelevance(products, searchTerms)
sortByRelevance(list, searchTerms) ==
  IF searchTerms = <<>> \/ list = <<>> THEN list
  ELSE LET scoredProducts ==
             [i \in 1..Len(list) |->
                [product |-> list[i], score |-> ScoreOf(list[i], searchTerms)]]
           sorted == SortScored(scoredProducts)
       IN  [i \in 1..Len(sorted) |-> sorted[i].product]

\* The score sortByRelevance computes for the record of the catalog
RelevanceScore(id) == scoreOf[id]

\* a before b in the order of sortByRelevance: higher score first, then title
RankedBefore(a, b) ==
  SortsBefore([product |-> products[a], score |-> RelevanceScore(a)],
              [product |-> products[b], score |-> RelevanceScore(b)])

\* ------------------------------------------------- applyClientSideFilters
\* The filter parameters parseURLFilters reads from the URL: for each category the
\* sequence of its values (empty for null: the parameter is absent), and the two
\* price bounds (NoBound for null).
NoBound == -1

NoParams == [productType |-> <<>>, styleGenre |-> <<>>, mediaCondition |-> <<>>,
             sleeveCondition |-> <<>>, priceMin |-> NoBound, priceMax |-> NoBound]

\* the callback of filterTypes.some: the value of the product type filter matches
\* the lower-cased productType
TypeMatches(productType, filter) ==
  LET filterLower == trim(toLowerCase(filter))
  IN  IF \/ filterLower = <<"v", "i", "n", "y", "l", " ", "l", "p", "s">>
         \/ filterLower = <<"l", "p", " ", "a", "l", "b", "u", "m", "s">>
      THEN includes(productType, <<"l", "p">>)
      ELSE IF filterLower = <<"c", "d", " ", "a", "l", "b", "u", "m", "s">>
      THEN includes(productType, <<"c", "d">>)
      ELSE IF filterLower = <<"7", "\"", " ", "s", "i", "n", "g", "l", "e", "s">>
      THEN includes(productType, <<"7">>)
      ELSE IF filterLower = <<"1", "2", "\"", " ", "s", "i", "n", "g", "l", "e", "s">>
      THEN includes(productType, <<"1", "2">>)
      ELSE IF filterLower = <<"1", "0", "\"", " ", "v", "i", "n", "y", "l">>
      THEN includes(productType, <<"1", "0">>)
      ELSE IF filterLower = <<"c", "a", "s", "s", "e", "t", "t", "e", " ", "a", "l", "b", "u", "m", "s">>
      THEN includes(productType, <<"c", "a", "s", "s", "e", "t", "t", "e">>)
      ELSE IF \/ filterLower = <<"d", "v", "d", " ", "&", " ", "b", "l", "u", "-", "r", "a", "y">>
              \/ filterLower = <<"d", "v", "d", " ", "a", "n", "d", " ", "b", "l", "u", "-", "r", "a", "y">>
              \/ /\ includes(filterLower, <<"d", "v", "d">>)
                 /\ includes(filterLower, <<"b", "l", "u">>)
      THEN \/ includes(productType, <<"d", "v", "d">>)
           \/ includes(productType, <<"b", "l", "u">>)
           \/ includes(productType, <<"b", "l", "u", "-", "r", "a", "y">>)
      ELSE includes(productType, filterLower)

\* the callback of filterGenres.some and filterConditions.some
ValueMatches(productValue, filter) ==
  LET filterLower == trim(toLowerCase(filter))
  IN  productValue = filterLower \/ includes(productValue, filterLower)

\* mutant: every value of the category has to match
TypeMatchesAll(productType, filters) ==
  \A i \in 1..Len(filters) : TypeMatches(toLowerCase(productType), filters[i])

\* "1. Product Type filter"
ProductTypeMatches(productType, filters) ==
  \E i \in 1..Len(filters) : TypeMatches(toLowerCase(productType), filters[i])

\* "2. Style/Genre filter", "3. Media Condition filter", "4. Sleeve Condition filter"
MetafieldMatches(value, filters) ==
  \E i \in 1..Len(filters) : ValueMatches(trim(toLowerCase(value)), filters[i])

\* "5. Price range filter"
PriceMatches(price, priceMin, priceMax) ==
  /\ priceMin # NoBound => ~(price < priceMin)
  /\ priceMax # NoBound => ~(price > priceMax)

\* the callback of products.filter: the product matches all active filters
MatchesFilters(product, params) ==
  /\ params.productType # <<>>
       => ProductTypeMatches(product.productType, params.productType)
  /\ params.styleGenre # <<>>
       => MetafieldMatches(product.styleGenre, params.styleGenre)
  /\ params.mediaCondition # <<>>
       => MetafieldMatches(product.mediaCondition, params.mediaCondition)
  /\ params.sleeveCondition # <<>>
       => MetafieldMatches(product.sleeveCondition, params.sleeveCondition)
  /\ (params.priceMin # NoBound \/ params.priceMax # NoBound)
       => PriceMatches(product.price, params.priceMin, params.priceMax)

RECURSIVE FilterProducts(_, _)
\* products.filter(...)
FilterProducts(list, params) ==
  IF list = <<>> THEN <<>>
  ELSE IF MatchesFilters(Head(list), params)
       THEN <<Head(list)>> \o FilterProducts(Tail(list), params)
       ELSE FilterProducts(Tail(list), params)

\* applyClientSideFilters(products, filterParams); NoParams stands for null and
\* for parameters none of which is set: both return the products as they are
applyClientSideFilters(list, params) ==
  LET hasFilters == \/ params.productType # <<>>
                    \/ params.styleGenre # <<>>
                    \/ params.mediaCondition # <<>>
                    \/ params.sleeveCondition # <<>>
                    \/ params.priceMin # NoBound
                    \/ params.priceMax # NoBound
  IN  IF ~hasFilters THEN list ELSE FilterProducts(list, params)

\* the URL of a search page that filters by the genre Rock
RockParams == [NoParams EXCEPT !.styleGenre = << <<"R", "o", "c", "k">> >>]

\* the URL of a search page that filters by a genre no record of the result has
SoulParams == [NoParams EXCEPT !.styleGenre = << <<"S", "o", "u", "l">> >>]

\* ------------------------------------------------- groupProductsIncremental
SingleItem(product, order) ==
  [type |-> "single", product |-> product, variantProducts |-> <<>>,
   originalIndex |-> order[product]]

GroupItem(group, order) ==
  [type |-> "group", product |-> group.mainProduct,
   variantProducts |-> group.variantProducts,
   originalIndex |-> order[group.mainProduct]]

\* the ids an item contains: its record, or the group's main record and members
ItemIds(item) == {item.product} \cup SeqToSet(item.variantProducts)

\* mutant: the scan does not skip the records that are rendered
MatchingWithRendered(pmap, product, key, rendered) ==
  SelectIn(pmap, {id \in Ids : id # product /\ keyOf[id] = key})

RECURSIVE MatchingProducts(_, _, _, _)
\* the scan of this.productMap.entries() for unrendered records with the key
MatchingProducts(pmap, product, key, rendered) ==
  IF pmap = <<>> THEN <<>>
  ELSE LET id   == Head(pmap)
           rest == MatchingProducts(Tail(pmap), product, key, rendered)
       IN  IF id \in rendered \/ id = product THEN rest
           ELSE IF keyOf[id] = key THEN <<id>> \o rest ELSE rest

\* mutant: a group is never taken as already rendered
NeverAlreadyRendered(existingGroup, rendered) == FALSE

\* "Check if group was already rendered BEFORE adding product to it"
GroupAlreadyRendered(existingGroup, rendered) ==
  existingGroup # NoGroup /\ existingGroup.mainProduct \in rendered

\* one iteration of the loop "for (const product of newProducts)";
\* st = [rendered, groups, items]
GroupOneProduct(product, newProducts, st, pmap, order) ==
  IF product \in st.rendered THEN st
  ELSE IF keyOf[product] = NoKey
  THEN [st EXCEPT !.items = Append(@, SingleItem(product, order)),
                  !.rendered = @ \cup {product}]
  ELSE
    LET groupKey == keyOf[product]
        existingGroup == st.groups[groupKey]
        groupAlreadyRendered == GroupAlreadyRendered(existingGroup, st.rendered)
        matchingProducts ==
          <<product>> \o MatchingProducts(pmap, product, groupKey, st.rendered)
        group ==
          IF existingGroup = NoGroup
          THEN IF Len(matchingProducts) > 1
               THEN [mainProduct     |-> matchingProducts[1],
                     variantProducts |-> Tail(matchingProducts),
                     allProducts     |-> matchingProducts]
               ELSE NoGroup
          ELSE IF InSeq(product, existingGroup.allProducts) THEN existingGroup
               ELSE [existingGroup EXCEPT
                       !.allProducts = Append(@, product),
                       !.variantProducts =
                          IF existingGroup.mainProduct # product
                          THEN Append(@, product) ELSE @]
        groups == [st.groups EXCEPT ![groupKey] = group]
        productsInThisBatch == SelectIn(group.allProducts, SeqToSet(newProducts))
    IN  IF groupAlreadyRendered
        THEN [st EXCEPT !.groups = groups, !.rendered = @ \cup {product}]
        ELSE IF group # NoGroup /\ Len(group.allProducts) > 1
        THEN IF Len(productsInThisBatch) > 0
             THEN [groups   |-> groups,
                   items    |-> Append(st.items, GroupItem(group, order)),
                   rendered |-> st.rendered \cup SeqToSet(productsInThisBatch)]
             ELSE [st EXCEPT !.groups = groups]
        ELSE [groups   |-> groups,
              items    |-> Append(st.items, SingleItem(product, order)),
              rendered |-> st.rendered \cup {product}]

RECURSIVE GroupLoop(_, _, _, _, _)
GroupLoop(i, newProducts, st, pmap, order) ==
  IF i > Len(newProducts) THEN st
  ELSE GroupLoop(i + 1, newProducts,
                 GroupOneProduct(newProducts[i], newProducts, st, pmap, order),
                 pmap, order)

RECURSIVE InsertByIndex(_, _)
\* insertion keeping equal keys in their order (Array.prototype.sort is stable)
InsertByIndex(item, sorted) ==
  IF sorted = <<>> THEN <<item>>
  ELSE IF item.originalIndex < Head(sorted).originalIndex THEN <<item>> \o sorted
       ELSE <<Head(sorted)>> \o InsertByIndex(item, Tail(sorted))

RECURSIVE SortByOriginalIndex(_)
\* itemsToRender.sort((a, b) => a.originalIndex - b.originalIndex)
SortByOriginalIndex(items) ==
  IF items = <<>> THEN <<>>
  ELSE InsertByIndex(Head(items), SortByOriginalIndex(Tail(items)))

\* groupProductsIncremental(newProducts) on the session state given:
\* the new renderedProductIds and groupMap and the returned itemsToRender
groupProductsIncremental(newProducts, rendered, groups, pmap, order) ==
  LET st == GroupLoop(1, newProducts,
                      [rendered |-> rendered, groups |-> groups, items |-> <<>>],
                      pmap, order)
  IN  [st EXCEPT !.items = SortByOriginalIndex(@)]

\* ------------------------------------------------------------ initial state
\* pageCount is only written to the debug log: the model counts the requests of
\* a run up to MaxPageCount, and the responses up to MaxPageCount - 1
MaxPageCount == 10

IdleRun == [pc |-> "idle", cursor |-> 0, hasNextPage |-> TRUE, totalFetched |-> 0,
            pageCount |-> 0, reqCursor |-> 0, grid |-> NoGrid, queue |-> <<>>,
            pagesOk |-> 0, fetchFailed |-> FALSE, outcome |-> "none"]

EmptyGroupMap == [k \in GroupKeys |-> NoGroup]
EmptyOrder == [id \in Ids |-> -1]

\* Catalogs in which the first and the last record share a key and the records
\* between them do not: records of one release on different pages
CrossPage(k) ==
  /\ k[1] = "K" /\ k[NumRecords] = "K"
  /\ \A i \in Ids : 1 < i /\ i < NumRecords => k[i] = "L"

\* The page visits the model explores: every catalog when the visitor changes no
\* filter; the cross-page catalog, or a page without access token, when the
\* visitor changes filters
Explored(k, token, updates) ==
  \/ updates = 0
  \/ ~token /\ \A i \in Ids : k[i] = "K"
  \/ token /\ CrossPage(k)

\* A sink that throws is explored where there is a sink and a filter change (the
\* handler is its only caller that is reached), a failing card where no filter changes
ExploredFaults(a11y, throws, bad, updates) ==
  /\ throws => (a11y /\ updates > 0)
  /\ bad # NoBadCard => updates = 0

\* Filter parameters in the URL are explored on a search page (on a collection page
\* the catalog applies them) that renders every card and whose filters do not change
ExploredParams(params, search, token, bad, updates) ==
  params # NoParams => (search /\ token /\ bad = NoBadCard /\ updates = 0)

\* no function is called by itself
NoCall == [fn |-> "none", productType |-> <<>>, list |-> <<>>, params |-> NoParams,
           searchTerms |-> <<>>, done |-> FALSE, result |-> <<>>]

\* the fields of the enhancer after construction, the grid Liquid has rendered
Constructed ==
  /\ isEnhancing = FALSE
  /\ useJsGrouping = TRUE
  /\ filterUpdateTimeout = FALSE
  /\ renderedProductIds = {}
  /\ groupMap = EmptyGroupMap
  /\ productMap = <<>>
  /\ originalProductOrder = EmptyOrder
  /\ liveGrid = 1
  /\ gridCards = [g \in Grids |-> <<LiquidCard>>]
  /\ gridHidden = [g \in Grids |-> TRUE]
  /\ pendingEvents = 0
  /\ filterUpdates = 0
  /\ runCount = 0
  /\ run = [r \in Runs |-> IdleRun]
  /\ initCalled = FALSE
  /\ handlerGrid = NoGrid
  /\ timerAge = 0
  /\ emitted = [r \in Runs |-> <<>>]
  /\ sinceSignal = 0
  /\ burstSignals = 0
  /\ furtherCalls = 0
  /\ facetRequests = [n \in 1..MaxFacetCalls |-> "none"]
  /\ resultsLoading = FALSE
  /\ closeBtnLoading = FALSE
  /\ formOf = NoRequest
  /\ resultsOf = NoRequest

\* a page without a "more from" section
NoMoreSection ==
  /\ moreTotal = 0
  /\ currentProductId = NoProduct
  /\ morePc = "idle"
  /\ moreProducts = <<>>
  /\ moreCursor = 0
  /\ moreHasNextPage = TRUE

Init ==
  /\ products \in Catalogs
  /\ keyOf = [i \in Ids |-> KeyName(GroupKeyOf(products[i]))]
  /\ scoreOf = [i \in Ids |-> ScoreOf(products[i], SearchTerms)]
  /\ isSearchMode \in BOOLEAN
  /\ hasToken \in BOOLEAN
  /\ hasA11y \in BOOLEAN
  /\ sinkThrows \in BOOLEAN
  /\ badCard \in Ids \cup {NoBadCard}
  /\ userUpdates \in 0..MaxFilterUpdates
  /\ Explored(keyOf, hasToken, userUpdates)
  /\ ExploredFaults(hasA11y, sinkThrows, badCard, userUpdates)
  /\ filterParams \in {NoParams, RockParams, SoulParams}
  /\ ExploredParams(filterParams, isSearchMode, hasToken, badCard, userUpdates)
  /\ call = NoCall
  /\ Constructed
  /\ NoMoreSection

\* ------------------------------------------------------------------ enhance
\* showLiquidProducts(): reveals the element document.querySelector finds with the
\* class js-grouping-hidden
showLiquidProducts(hidden) ==
  IF liveGrid # NoGrid /\ hidden[liveGrid]
  THEN [hidden EXCEPT ![liveGrid] = FALSE] ELSE hidden

\* enhance() after "await this.loadProductsProgressively(...)": the final visibility
\* check, the early return on an empty grid, and the completion announcement, whose
\* expression reads the undeclared groupedData when this.renderedCount is falsy (it
\* always is on this path), so that with an accessibility enhancer the catch block runs.
Finalize(rr, cards, hidden) ==
  LET shown == [hidden EXCEPT ![rr.grid] = FALSE]
      productCount == Len(cards[rr.grid])
  IN  IF productCount = 0
      THEN [run |-> [rr EXCEPT !.pc = "done", !.outcome = "empty"], hidden |-> shown]
      ELSE IF hasA11y
      THEN [run |-> [rr EXCEPT !.pc = "done", !.outcome = "fallback"],
            hidden |-> showLiquidProducts(shown)]
      ELSE [run |-> [rr EXCEPT !.pc = "done", !.outcome = "success"], hidden |-> shown]

\* the cursor passed to the catalog client for the next page
RequestCursor(rr) == IF isSearchMode THEN 0 ELSE rr.cursor

\* one evaluation of "while (hasNextPage && totalFetched < 5000)" followed by the
\* request of the next page, or by the end of the loop
NextIteration(rr, cards, hidden) ==
  IF rr.hasNextPage /\ rr.totalFetched < MaxProducts
  THEN [run |-> [rr EXCEPT !.pc = "fetch", !.pageCount = Min(@ + 1, MaxPageCount),
                           !.reqCursor = RequestCursor(rr)],
        hidden |-> hidden]
  ELSE Finalize(rr, cards, hidden)

\* "Update pagination" and the 50 ms delay before the next page
AfterPage(rr, cards, hidden) ==
  LET pageInfo == CatalogPage(rr.reqCursor)
      rr1 == [rr EXCEPT !.hasNextPage = pageInfo.hasNextPage,
                        !.cursor = pageInfo.endCursor]
  IN  IF rr1.hasNextPage
      THEN [run |-> [rr1 EXCEPT !.pc = "pageDelay"], hidden |-> hidden]
      ELSE NextIteration(rr1, cards, hidden)

\* renderProductsBatch returned: the grid is made visible, then AfterPage
AfterRender(rr, cards, hidden) ==
  AfterPage(rr, cards, [hidden EXCEPT ![rr.grid] = FALSE])

\* mutant: the count without the main record
CopiesWithoutMain(item) == Len(item.variantProducts)

\* fetchCard's groupSize: the handles of item.variantHandles, one per member
GroupSize(item) == Len(item.variantProducts)

\* "${groupSize + 1} copies available"
CopiesAvailable(item) == GroupSize(item) + 1

Card(r, item) ==
  [run |-> r, type |-> item.type, product |-> item.product,
   variantProducts |-> item.variantProducts, originalIndex |-> item.originalIndex,
   copies |-> IF item.type = "group" THEN CopiesAvailable(item) ELSE 0]

\* fetchCard(item) returns a card element: renderCardFromData neither throws nor
\* returns null for the item's record
CardRenders(item) == item.product # badCard

\* mutant: the first item without a card ends the batch
CardsUntilFailure(r, queue) ==
  LET batch == SubSeq(queue, 1, Min(RenderBatchSize, Len(queue)))
      good  == {n \in 0..Len(batch) : \A i \in 1..n : CardRenders(batch[i])}
      last  == CHOOSE n \in good : \A m \in good : m <= n
  IN  [i \in 1..last |-> Card(r, batch[i])]

\* the cards of one batch of renderProductsBatch, appended as one fragment: an
\* item whose card throws or is null is skipped
ChunkCards(r, queue) ==
  LET batch == SelectSeq(SubSeq(queue, 1, Min(RenderBatchSize, Len(queue))), CardRenders)
  IN  [i \in 1..Len(batch) |-> Card(r, batch[i])]

RestOfQueue(queue) ==
  SubSeq(queue, Min(RenderBatchSize, Len(queue)) + 1, Len(queue))

\* mutant: the set of rendered ids is kept from the earlier run
KeepRendered(old) == old

\* mutant: the groups are kept from the earlier run
KeepGroupMap(old) == old

\* "Initialize state for progressive loading" / "Reset state"
FreshRendered(old) == {}
FreshGroupMap(old) == EmptyGroupMap
FreshProductMap(old) == <<>>
FreshOrder(old) == EmptyOrder

\* enhance(), called with isEnhancing = FALSE, up to its first suspension.
\* cards, hidden: the document as the caller leaves it; jsGrouping: this.useJsGrouping
Enhance(cards, hidden, jsGrouping) ==
  LET r == runCount + 1
      started == [IdleRun EXCEPT !.grid = liveGrid]
  IN  /\ isEnhancing' = TRUE
      /\ runCount' = r
      /\ IF ~jsGrouping
         THEN /\ run' = [run EXCEPT ![r] = [IdleRun EXCEPT !.pc = "done",
                                                          !.outcome = "liquid"]]
              /\ gridHidden' = showLiquidProducts(hidden)
              /\ gridCards' = cards
              /\ UNCHANGED sessionVars
         ELSE /\ renderedProductIds' = FreshRendered(renderedProductIds)
              /\ groupMap' = FreshGroupMap(groupMap)
              /\ productMap' = FreshProductMap(productMap)
              /\ originalProductOrder' = FreshOrder(originalProductOrder)
              /\ IF liveGrid = NoGrid
                 THEN \* throw new Error('Product grid not found'), caught by enhance
                      /\ run' = [run EXCEPT ![r] = [IdleRun EXCEPT !.pc = "done",
                                                                  !.outcome = "fallback"]]
                      /\ gridHidden' = showLiquidProducts(hidden)
                      /\ gridCards' = cards
                 ELSE LET cleared == [cards EXCEPT ![liveGrid] = <<>>]
                          shown == [hidden EXCEPT ![liveGrid] = FALSE]
                      IN  IF hasToken
                          THEN /\ run' = [run EXCEPT ![r] =
                                            [started EXCEPT !.pc = "fetch",
                                                            !.pageCount = 1,
                                                            !.reqCursor = 0]]
                               /\ gridHidden' = shown
                               /\ gridCards' = cleared
                          ELSE \* query() throws; the loop catches it and breaks
                               LET fin == Finalize([started EXCEPT !.pageCount = 1],
                                                   cleared, shown)
                               IN  /\ run' = [run EXCEPT ![r] = fin.run]
                                   /\ gridHidden' = fin.hidden
                                   /\ gridCards' = cleared

\* The runs that have started and not ended
ActiveRuns == {r \in Runs : run[r].pc \notin {"idle", "done"}}

\* The model lets a task that starts a run wait until fewer than MaxActiveRuns
\* earlier runs are still going
CanStartRun == Cardinality(ActiveRuns) < MaxActiveRuns

\* init(): the constructor's call of enhance() (at once or on DOMContentLoaded)
InitEnhance ==
  /\ ~initCalled
  /\ CanStartRun
  /\ initCalled' = TRUE
  /\ IF isEnhancing
     THEN UNCHANGED <<isEnhancing, runCount, run, gridHidden, gridCards, sessionVars>>
     ELSE Enhance(gridCards, gridHidden, useJsGrouping)
  /\ UNCHANGED <<envVars, useJsGrouping, filterUpdateTimeout, liveGrid, pendingEvents,
                 filterUpdates, handlerGrid, timerAge, historyVars>>

\* ---------------------------------------------------- loadProductsProgressively
\* mutant: the index within the page, without the offset of the earlier pages
PageOrderNoOffset(order, pageProducts, totalFetched) ==
  [id \in Ids |->
     IF InSeq(id, pageProducts)
     THEN (CHOOSE i \in 1..Len(pageProducts) : pageProducts[i] = id) - 1
     ELSE order[id]]

\* "Store original order": the index of each record of the page
PageOrder(order, pageProducts, totalFetched) ==
  [id \in Ids |->
     IF InSeq(id, pageProducts)
     THEN totalFetched + (CHOOSE i \in 1..Len(pageProducts) : pageProducts[i] = id) - 1
     ELSE order[id]]

RECURSIVE PutAll(_, _)
\* Map.set for each record of the page: a new key goes last, a known key stays
PutAll(pmap, pageProducts) ==
  IF pageProducts = <<>> THEN pmap
  ELSE PutAll(IF InSeq(Head(pageProducts), pmap) THEN pmap
              ELSE Append(pmap, Head(pageProducts)),
              Tail(pageProducts))

\* The relevance sort of a page in search mode
PageProducts(records) ==
  IF isSearchMode
  THEN LET kept == applyClientSideFilters([i \in 1..Len(records) |-> products[records[i]]],
                                          filterParams)
           sorted == SortScored([i \in 1..Len(kept) |->
                                   [product |-> kept[i],
                                    score |-> RelevanceScore(kept[i].id)]])
       IN  [i \in 1..Len(sorted) |-> sorted[i].product.id]
  ELSE records

\* The response of a page request arrives: the page is stored, grouped, and the
\* first batch of its items is rendered
FetchOk(r) ==
  /\ run[r].pc = "fetch"
  /\ LET rr == run[r]
         resp == CatalogPage(rr.reqCursor)
         pageProducts == PageProducts(resp.records)
         order == PageOrder(originalProductOrder, pageProducts, rr.totalFetched)
         pmap == PutAll(productMap, pageProducts)
         g == groupProductsIncremental(pageProducts, renderedProductIds, groupMap,
                                       pmap, order)
         rr1 == [rr EXCEPT !.totalFetched = @ + Len(pageProducts),
                           !.pagesOk = Min(@ + 1, MaxPageCount - 1)]
         cards == [gridCards EXCEPT ![rr.grid] = @ \o ChunkCards(r, g.items)]
         next == IF g.items = <<>> THEN AfterPage(rr1, gridCards, gridHidden)
                 ELSE IF Len(g.items) > RenderBatchSize
                 THEN [run |-> [rr1 EXCEPT !.pc = "chunkDelay",
                                           !.queue = RestOfQueue(g.items)],
                       hidden |-> gridHidden]
                 ELSE AfterRender(rr1, cards, gridHidden)
     IN  /\ originalProductOrder' = order
         /\ productMap' = pmap
         /\ renderedProductIds' = g.rendered
         /\ groupMap' = g.groups
         /\ emitted' = [emitted EXCEPT ![r] = @ \o g.items]
         /\ gridCards' = cards
         /\ gridHidden' = next.hidden
         /\ run' = [run EXCEPT ![r] = next.run]
  /\ UNCHANGED <<envVars, isEnhancing, useJsGrouping, filterUpdateTimeout, liveGrid,
                 pendingEvents, filterUpdates, runCount, initCalled, handlerGrid,
                 timerAge, sinceSignal, burstSignals>>

\* The page request fails (network or GraphQL error): the catch block of the loop
\* breaks, loadProductsProgressively returns and enhance() goes on
FetchFail(r) ==
  /\ run[r].pc = "fetch"
  /\ LET fin == Finalize([run[r] EXCEPT !.fetchFailed = TRUE], gridCards, gridHidden)
     IN  /\ run' = [run EXCEPT ![r] = fin.run]
         /\ gridHidden' = fin.hidden
  /\ UNCHANGED <<envVars, isEnhancing, useJsGrouping, filterUpdateTimeout, sessionVars,
                 liveGrid, gridCards, pendingEvents, filterUpdates, runCount,
                 initCalled, handlerGrid, timerAge, historyVars>>

\* The 10 ms delay after a batch of renderProductsBatch ends: the next batch is
\* rendered and appended, or renderProductsBatch returns
ChunkDelayDone(r) ==
  /\ run[r].pc = "chunkDelay"
  /\ LET rr == run[r]
     IN  IF rr.queue # <<>>
         THEN /\ gridCards' = [gridCards EXCEPT ![rr.grid] = @ \o ChunkCards(r, rr.queue)]
              /\ run' = [run EXCEPT ![r].queue = RestOfQueue(rr.queue)]
              /\ UNCHANGED gridHidden
         ELSE LET next == AfterRender(rr, gridCards, gridHidden)
              IN  /\ run' = [run EXCEPT ![r] = next.run]
                  /\ gridHidden' = next.hidden
                  /\ UNCHANGED gridCards
  /\ UNCHANGED <<envVars, isEnhancing, useJsGrouping, filterUpdateTimeout, sessionVars,
                 liveGrid, pendingEvents, filterUpdates, runCount, initCalled,
                 handlerGrid, timerAge, historyVars>>

\* The 50 ms delay between two pages ends
PageDelayDone(r) ==
  /\ run[r].pc = "pageDelay"
  /\ LET next == NextIteration(run[r], gridCards, gridHidden)
     IN  /\ run' = [run EXCEPT ![r] = next.run]
         /\ gridHidden' = next.hidden
  /\ UNCHANGED <<envVars, isEnhancing, useJsGrouping, filterUpdateTimeout, sessionVars,
                 liveGrid, gridCards, pendingEvents, filterUpdates, runCount,
                 initCalled, handlerGrid, timerAge, historyVars>>

\* ------------------------------------------------ FacetFilters.applyFilters
\* A response with response.ok: the content of #filter-results is replaced (with or
\* without a ul), the new ul is hidden, and the signal is scheduled
FacetFiltersUpdate ==
  /\ filterUpdates < userUpdates
  /\ filterUpdates' = filterUpdates + 1
  /\ pendingEvents' = pendingEvents + 1
  /\ \E hasUl \in BOOLEAN :
       liveGrid' = IF hasUl THEN filterUpdates + 2 ELSE NoGrid
  /\ UNCHANGED <<envVars, isEnhancing, useJsGrouping, filterUpdateTimeout, sessionVars,
                 gridCards, gridHidden, runCount, run, initCalled, handlerGrid,
                 timerAge, historyVars>>

\* --------------------------------------------------------- handleFilterUpdate
\* mutant: the handler leaves the grid as it is
LeaveGrid(hidden, grid) == hidden

\* "IMMEDIATELY hide the grid": display none and js-grouping-hidden, if a grid is found
HideGrid(hidden, grid) ==
  IF grid # NoGrid THEN [hidden EXCEPT ![grid] = TRUE] ELSE hidden

\* The signal is dispatched: handleFilterUpdate up to "await new Promise(...)".
\* A debounce timer that is due runs before a signal that comes later.
HandleFilterUpdate ==
  /\ pendingEvents > 0
  /\ ~(filterUpdateTimeout /\ timerAge >= DebounceMs)
  /\ pendingEvents' = pendingEvents - 1
  /\ isEnhancing' = FALSE
  /\ handlerGrid' = liveGrid
  /\ gridHidden' = HideGrid(gridHidden, liveGrid)
  /\ filterUpdateTimeout' = TRUE
  /\ timerAge' = 0
  /\ sinceSignal' = 0
  /\ burstSignals' = IF filterUpdateTimeout THEN burstSignals + 1 ELSE 1
  /\ UNCHANGED <<envVars, useJsGrouping, sessionVars, liveGrid, gridCards,
                 filterUpdates, runCount, run, initCalled, emitted>>

\* Time passes while the debounce timer is pending and not due
Tick ==
  /\ filterUpdateTimeout
  /\ timerAge < DebounceMs
  /\ timerAge' = timerAge + TickMs
  /\ sinceSignal' = sinceSignal + TickMs
  /\ UNCHANGED burstSignals
  /\ UNCHANGED <<envVars, isEnhancing, useJsGrouping, filterUpdateTimeout, sessionVars,
                 liveGrid, gridCards, gridHidden, pendingEvents, filterUpdates,
                 runCount, run, initCalled, handlerGrid, emitted>>

\* mutant: the timer is set with a shorter delay
TimerDueEarly(age) == age >= TickMs

\* The timer has run for the delay it was set with
TimerDue(age) == age >= DebounceMs

\* window.accessibilityEnhancer.announceLoading(...) of the handler throws
AnnounceLoadingThrows == hasA11y /\ sinkThrows

\* The debounce timer fires: handleFilterUpdate from "this.filterUpdateTimeout = null"
\* to the first suspension of the enhance() it calls
DebounceFire ==
  /\ filterUpdateTimeout
  /\ TimerDue(timerAge)
  /\ CanStartRun
  /\ filterUpdateTimeout' = FALSE
  /\ timerAge' = 0
  /\ sinceSignal' = 0
  /\ handlerGrid' = NoGrid
  /\ UNCHANGED burstSignals
  /\ LET grid == IF handlerGrid # NoGrid THEN handlerGrid ELSE liveGrid
     IN  IF grid = NoGrid \/ AnnounceLoadingThrows
         THEN \* "if (!grid) return", or the handler's promise rejects
              UNCHANGED <<isEnhancing, useJsGrouping, sessionVars, gridCards,
                          gridHidden, runCount, run>>
         ELSE /\ useJsGrouping' = TRUE
              /\ Enhance([gridCards EXCEPT ![grid] = <<>>],
                         [gridHidden EXCEPT ![grid] = FALSE], TRUE)
  /\ UNCHANGED <<envVars, liveGrid, pendingEvents, filterUpdates, initCalled, emitted>>

\* ------------------------------------------------------------ specification
Next ==
  \/ InitEnhance
  \/ \E r \in Runs : FetchOk(r)
  \/ \E r \in Runs : FetchFail(r)
  \/ \E r \in Runs : ChunkDelayDone(r)
  \/ \E r \in Runs : PageDelayDone(r)
  \/ FacetFiltersUpdate
  \/ HandleFilterUpdate
  \/ Tick
  \/ DebounceFire

Spec == Init /\ [][Next]_vars

\* A page visit on which the visitor changes filters, or a visit of a page with
\* token, without URL filters and failing cards, on which no filter changes
LiveInit ==
  /\ Init
  /\ \/ userUpdates > 0
     \/ hasToken /\ ~hasA11y /\ badCard = NoBadCard /\ filterParams \in {NoParams, SoulParams}

\* A step of the event loop that a timer or a network answer makes due: the
\* debounce timer, the answer to a page request (a response or an error), the
\* delay after a chunk of cards, the delay after a page
Progress ==
  \/ DebounceFire
  \/ \E r \in Runs : FetchFail(r) \/ FetchOk(r) \/ ChunkDelayDone(r) \/ PageDelayDone(r)

\* The event loop runs a due step sooner or later; time passes while a timer is
\* pending, and the signal applyFilters has scheduled (setTimeout, 100 ms) is
\* dispatched
LiveSpec ==
  /\ LiveInit /\ [][Next]_vars
  /\ WF_vars(Progress) /\ WF_vars(Tick) /\ WF_vars(HandleFilterUpdate)

\* ------------------------------------------------ the pure functions by themselves
\* The product types of the shop's data are made of these words
TypeWords ==
  <<<<"1", "2", "\"">>,
    <<"1", "0", "\"">>,
    <<"7", "\"">>,
    <<"B", "o", "x">>,
    <<"L", "P">>,
    <<"C", "D">>,
    <<"C", "a", "s", "s", "e", "t", "t", "e">>,
    <<"E", "P">>,
    <<"D", "V", "D">>,
    <<"B", "l", "u", "-", "r", "a", "y">>,
    <<"V", "H", "S">>,
    <<"V", "i", "n", "y", "l">>,
    <<"B", "o", "o", "k">>>>

\* the productType arguments of getFormat: one word, or two words and a blank
ProductTypes ==
  {TypeWords[a] : a \in DOMAIN TypeWords}
    \cup {TypeWords[a] \o <<" ">> \o TypeWords[b] : a, b \in DOMAIN TypeWords}

\* The records on the shelf: LP and CD copies with the genres, conditions and
\* prices of the catalog, some without media condition
Stock(i) ==
  [Record(i, IF i % 2 = 0 THEN "cd" ELSE "lp") EXCEPT
     !.mediaCondition = IF i % 3 = 0 THEN <<>>
                        ELSE IF i % 3 = 1 THEN <<"N", "M">> ELSE <<"V", "G">>,
     !.sleeveCondition = IF i % 2 = 0 THEN <<"V", "G">> ELSE <<" ", "g", " ">>]

StockSize == 5

\* the pages applyClientSideFilters is given
StockLists == {[i \in 1..n |-> Stock(i)] : n \in 3..StockSize}

\* the parameters parseURLFilters yields: per category no value, one value or
\* two values, the price bounds absent or present
ParamsOfUrl ==
  [productType : {<<>>, <<<<"V", "i", "n", "y", "l", " ", "L", "P", "s">>>>, <<<<"C", "D", " ", "A", "l", "b", "u", "m", "s">>, <<"V", "i", "n", "y", "l", " ", "L", "P", "s">>>>, <<<<"c", "d">>>>},
   styleGenre : {<<>>, <<<<"R", "o", "c", "k">>>>, <<<<"j", "a", "z", "z">>, <<"S", "o", "u", "l">>>>},
   mediaCondition : {<<>>, <<<<"N", "M">>>>, <<<<"V", "G">>, <<"N", "M">>>>},
   sleeveCondition : {<<>>, <<<<"V", "G">>>>},
   priceMin : {NoBound, 12},
   priceMax : {NoBound, 14}]

\* The records of a search result for "up": titles that hold the terms in
\* different spellings, a record that holds them in its tags only, a record
\* with the title of another one
Disc(i) ==
  [Record(1, "lp") EXCEPT
     !.id = i,
     !.title = IF i = 1 THEN <<"u", "p", " ", "b">>
               ELSE IF i = 2 THEN <<"U", "P", " ", "a">>
               ELSE IF i = 3 THEN <<"U", "p", " ", "c">>
               ELSE IF i = 4 THEN <<"O", "n">>
               ELSE IF i = 5 THEN <<"U", "p">>
               ELSE <<"u", "p", " ", "b">>,
     !.tags = IF i = 4 THEN << <<"u", "p">> >> ELSE <<>>]

DiscCount == 6

\* the search results of three of these records, in every order
DiscLists ==
  {<<Disc(t[1]), Disc(t[2]), Disc(t[3])>> :
     t \in {u \in [1..3 -> 1..DiscCount] : u[1] # u[2] /\ u[1] # u[3] /\ u[2] # u[3]}}

MaxTagMatches == 24

\* a record titled as the query, and its like with another title and n tags "up"
TitledUp == [Disc(5) EXCEPT !.id = 1, !.title = <<"u", "p">>]
TaggedUp(n) == [Disc(5) EXCEPT !.id = 2, !.title = <<"o", "n">>, !.tags = [i \in 1..n |-> <<"u", "p">>]]

TagLists ==
  {<<TaggedUp(n), TitledUp>> : n \in 1..MaxTagMatches}
    \cup {<<TitledUp, TaggedUp(n)>> : n \in 1..MaxTagMatches}

\* the numbers of characters that follow the query in a title
TitlePads == {0, 1, 100, 197, 300}

\* a record of a compilation and a record of an artist, whose titles hold the
\* query once and n more characters
Padded(n) == <<"u", "p">> \o [i \in 1..n |-> IF i = 1 THEN " " ELSE "x"]
Compilation(artist, n) == [Disc(5) EXCEPT !.id = 1, !.title = Padded(n), !.artist = artist]
ByArtist(n) == [Disc(5) EXCEPT !.id = 2, !.title = Padded(n)]

CompilationLists ==
  {<<Compilation(a, m), ByArtist(n)>> : a \in {<<"V", "a", "r", "i", "o", "u", "s">>, <<" ", "V", "A", "R", "I", "O", "U", "S", " ">>}, m, n \in TitlePads}
    \cup {<<ByArtist(n), Compilation(a, m)>> : a \in {<<"V", "a", "r", "i", "o", "u", "s">>, <<" ", "V", "A", "R", "I", "O", "U", "S", " ">>}, m, n \in TitlePads}

\* the search terms of the page, as typed
Queries == {<<"u", "p">>, <<" ", "U", "p">>}

\* the calls: a function and its arguments
FormatCalls ==
  {[NoCall EXCEPT !.fn = "getFormat", !.productType = t] : t \in ProductTypes}

FilterCalls ==
  {[NoCall EXCEPT !.fn = "applyClientSideFilters", !.list = l, !.params = f] :
      l \in StockLists, f \in ParamsOfUrl}

SortCalls ==
  {[NoCall EXCEPT !.fn = "sortByRelevance", !.list = l, !.searchTerms = q] :
      l \in DiscLists \cup TagLists \cup CompilationLists, q \in Queries}

\* groupProducts and groupProductsIncremental are called with the records of the
\* page's catalog as a single batch
GroupingCalls == {[NoCall EXCEPT !.fn = "groupProducts"]}

Calls == FormatCalls \cup FilterCalls \cup SortCalls \cup GroupingCalls

\* The batches that are grouped: the copies of a release whose artist is written
\* with or without a vertical bar, CD copies, and records without artist or album
BatchCatalogs ==
  {[i \in Ids |-> Record(i, shape[i])] :
     shape \in [Ids -> {"lp", "cd", "untitled"}] \cup [Ids -> {"piped", "cd", "untitled"}]}

\* the one catalog of the calls that take their records as arguments
LpCatalog == [i \in Ids |-> Record(i, "lp")]

\* One call on a search page whose enhancer is constructed
FnInit ==
  /\ call \in Calls
  /\ products \in (IF call.fn = "groupProducts" THEN BatchCatalogs ELSE {LpCatalog})
  /\ keyOf = [i \in Ids |-> KeyName(GroupKeyOf(products[i]))]
  /\ scoreOf = [i \in Ids |-> ScoreOf(products[i], SearchTerms)]
  /\ isSearchMode = TRUE
  /\ hasToken = TRUE
  /\ hasA11y = FALSE
  /\ sinkThrows = FALSE
  /\ badCard = NoBadCard
  /\ userUpdates = 0
  /\ filterParams = NoParams
  /\ Constructed
  /\ NoMoreSection

\* the fields of the enhancer and the part of the document it works on
enhancerVars == <<isEnhancing, useJsGrouping, filterUpdateTimeout, sessionVars,
                  liveGrid, gridCards, gridHidden, pendingEvents, filterUpdates, runCount,
                  run, initCalled, handlerGrid, timerAge, historyVars>>

programVars == <<pageVars, furtherCalls, facetVars, moreVars, isEnhancing, useJsGrouping, filterUpdateTimeout, sessionVars,
                 liveGrid, gridCards, gridHidden, pendingEvents, filterUpdates, runCount,
                 run, initCalled, handlerGrid, timerAge, historyVars>>

\* getFormat(productType) returns
GetFormatCall ==
  /\ call.fn = "getFormat" /\ ~call.done
  /\ call' = [call EXCEPT !.done = TRUE, !.result = getFormat(call.productType)]
  /\ UNCHANGED programVars

\* applyClientSideFilters(products, filterParams) returns
ApplyClientSideFiltersCall ==
  /\ call.fn = "applyClientSideFilters" /\ ~call.done
  /\ call' = [call EXCEPT !.done = TRUE,
                          !.result = applyClientSideFilters(call.list, call.params)]
  /\ UNCHANGED programVars

\* sortByRelevance(products, searchTerms) returns
SortByRelevanceCall ==
  /\ call.fn = "sortByRelevance" /\ ~call.done
  /\ call' = [call EXCEPT !.done = TRUE,
                          !.result = sortByRelevance(call.list, call.searchTerms)]
  /\ UNCHANGED programVars

\* String.prototype.split('|')
RECURSIVE splitBar(_)
splitBar(s) ==
  IF \E i \in 1..Len(s) : s[i] = "|"
  THEN LET i == CHOOSE i \in 1..Len(s) : s[i] = "|" /\ \A j \in 1..(i - 1) : s[j] # "|"
       IN  <<SubSeq(s, 1, i - 1)>> \o splitBar(SubSeq(s, i + 1, Len(s)))
  ELSE <<s>>

\* "format: groupKey.split('|')[2]"
FormatOfKey(groupKey) == splitBar(groupKey)[3]

RECURSIVE KeysInOrder(_, _)
\* the keys of groupMap in insertion order: each key where it first occurs
KeysInOrder(list, seen) ==
  IF list = <<>> THEN <<>>
  ELSE LET key == GroupKeyOf(products[Head(list)])
       IN  IF key = <<>> \/ key \in seen THEN KeysInOrder(Tail(list), seen)
           ELSE <<key>> \o KeysInOrder(Tail(list), seen \cup {key})

\* groupMap.get(groupKey): the products pushed under the key, in order
ProductsOfKey(list, key) ==
  SelectIn(list, {id \in Ids : GroupKeyOf(products[id]) = key})

\* MoreFromEnhancer.groupProducts(products): the groups in the order of the keys,
\* and the singles: first the products without artist or album, then the
\* products that are alone under their key (handles are unique)
groupProducts(list) ==
  LET keys == KeysInOrder(list, {})
      many == SelectSeq(keys, LAMBDA k : Len(ProductsOfKey(list, k)) > 1)
      lone == SelectSeq(keys, LAMBDA k : Len(ProductsOfKey(list, k)) = 1)
  IN  [groups  |-> [n \in 1..Len(many) |->
                      [mainProduct     |-> ProductsOfKey(list, many[n])[1],
                       variantProducts |-> Tail(ProductsOfKey(list, many[n])),
                       format          |-> FormatOfKey(many[n])]],
       singles |-> SelectIn(list, {id \in Ids : GroupKeyOf(products[id]) = <<>>})
                   \o [n \in 1..Len(lone) |-> ProductsOfKey(list, lone[n])[1]]]

\* the records of the catalog in their order
Batch == [i \in 1..NumRecords |-> i]

\* loadProductsProgressively hands the batch to groupProductsIncremental on the
\* session state enhance() has initialised, after it has stored the order and the
\* records of the batch
IncrementalItems(list) ==
  groupProductsIncremental(list, {}, EmptyGroupMap, PutAll(<<>>, list),
                           PageOrder(EmptyOrder, list, 0)).items

\* the batch is grouped by MoreFromEnhancer.groupProducts and by
\* CollectionGroupingEnhancer.groupProductsIncremental
GroupProductsCall ==
  /\ call.fn = "groupProducts" /\ ~call.done
  /\ call' = [call EXCEPT !.done = TRUE,
                          !.result = [more        |-> groupProducts(Batch),
                                      incremental |-> IncrementalItems(Batch)]]
  /\ UNCHANGED programVars

FnNext ==
  \/ GetFormatCall
  \/ ApplyClientSideFiltersCall
  \/ SortByRelevanceCall
  \/ GroupProductsCall

FnSpec == FnInit /\ [][FnNext]_vars

\* ------------------------------------------------ enhance() called by another script
MaxFurtherCalls == 1

\* mutant: the guard lets every call pass
NeverInProgress == FALSE

\* "if (this.isEnhancing)": the guard of enhance()
EnhancementInProgress == isEnhancing

\* enhance() is a method of the custom element: a script of the page calls it
\* after init() has
EnhanceAgain ==
  /\ initCalled
  /\ furtherCalls < MaxFurtherCalls
  /\ EnhancementInProgress \/ CanStartRun
  /\ furtherCalls' = furtherCalls + 1
  /\ IF EnhancementInProgress
     THEN UNCHANGED <<isEnhancing, runCount, run, gridHidden, gridCards, sessionVars>>
     ELSE Enhance(gridCards, gridHidden, useJsGrouping)
  /\ UNCHANGED <<pageVars, call, facetVars, moreVars, useJsGrouping, filterUpdateTimeout,
                 liveGrid, pendingEvents, filterUpdates, initCalled, handlerGrid,
                 timerAge, historyVars>>

\* A page visit with at most one filter change, on which every card renders and
\* the announcements do not throw
CallInit ==
  /\ Init
  /\ userUpdates <= 1
  /\ badCard = NoBadCard /\ ~sinkThrows /\ filterParams = NoParams

CallNext ==
  \/ Next
  \/ EnhanceAgain

CallSpec == CallInit /\ [][CallNext]_vars

\* ------------------------------------- FacetFilters.applyFilters, by request
\* The visitor's filter changes, one applyFilters call each
FacetCalls == 1..MaxFacetCalls

\* the calls made so far
Issued == Cardinality({n \in FacetCalls : facetRequests[n] # "none"})

\* the calls that await fetch() or response.text()
InFlight == {n \in FacetCalls : facetRequests[n] \in {"fetch", "text"}}

\* mutant: the request of the earlier call is left alone
KeepOlder(reqs) == reqs

\* "this.applyFiltersFetchAbortController.abort('Request changed')": the fetch of
\* the earlier call, or the reading of its body, rejects; on a request that has
\* ended abort() does nothing
AbortOlder(reqs) ==
  [n \in FacetCalls |-> IF reqs[n] \in {"fetch", "text"} THEN "aborted" ELSE reqs[n]]

\* applyFilters up to "await fetch(...)", and the catch and finally blocks of the
\* call it has aborted, which run as soon as this call suspends
ApplyFilters ==
  /\ Issued < userUpdates
  /\ LET n == Issued + 1
         older == AbortOlder(facetRequests)
     IN  /\ facetRequests' = [older EXCEPT ![n] = "fetch"]
         /\ resultsLoading' = (older = facetRequests)
  /\ closeBtnLoading' = TRUE
  /\ UNCHANGED <<formOf, resultsOf>>
  /\ UNCHANGED <<pageVars, call, furtherCalls, moreVars, enhancerVars>>

\* fetch() resolves for call n: with response.ok the call goes on to await
\* response.text(); otherwise it skips the update and runs its finally block
FacetResponse(n) ==
  /\ facetRequests[n] = "fetch"
  /\ \E ok \in BOOLEAN :
       IF ok
       THEN /\ facetRequests' = [facetRequests EXCEPT ![n] = "text"]
            /\ UNCHANGED resultsLoading
       ELSE /\ facetRequests' = [facetRequests EXCEPT ![n] = "notOk"]
            /\ resultsLoading' = FALSE
  /\ UNCHANGED <<closeBtnLoading, formOf, resultsOf>>
  /\ UNCHANGED <<pageVars, call, furtherCalls, moreVars, enhancerVars>>

\* the request of call n, or the reading of its body, fails in the network: the
\* catch block logs and the finally block runs
FacetFetchError(n) ==
  /\ facetRequests[n] \in {"fetch", "text"}
  /\ facetRequests' = [facetRequests EXCEPT ![n] = "failed"]
  /\ resultsLoading' = FALSE
  /\ UNCHANGED <<closeBtnLoading, formOf, resultsOf>>
  /\ UNCHANGED <<pageVars, call, furtherCalls, moreVars, enhancerVars>>

\* The markup a response can hold: the filters and results with a product list,
\* without one, or the filters without the button of the mobile drawer
Markups == {"list", "noList", "noButton"}

\* response.text() resolves for call n: the form is replaced; reading the label
\* of a button the markup lacks throws, and the catch and finally blocks run;
\* otherwise the results are replaced, the new list is hidden, the button is
\* enabled, the signal is scheduled, and the finally block runs
FacetTextRead(n) ==
  /\ facetRequests[n] = "text"
  /\ formOf' = n
  /\ resultsLoading' = FALSE
  /\ \E markup \in Markups :
       IF markup = "noButton"
       THEN /\ facetRequests' = [facetRequests EXCEPT ![n] = "threw"]
            /\ UNCHANGED <<resultsOf, closeBtnLoading, liveGrid, filterUpdates,
                           pendingEvents>>
       ELSE /\ facetRequests' = [facetRequests EXCEPT ![n] = "applied"]
            /\ resultsOf' = n
            /\ closeBtnLoading' = FALSE
            /\ liveGrid' = IF markup = "list" THEN filterUpdates + 2 ELSE NoGrid
            /\ filterUpdates' = filterUpdates + 1
            /\ pendingEvents' = pendingEvents + 1
  /\ UNCHANGED <<pageVars, call, furtherCalls, moreVars, isEnhancing, useJsGrouping,
                 filterUpdateTimeout, sessionVars, gridCards, gridHidden, runCount,
                 run, initCalled, handlerGrid, timerAge, historyVars>>

\* A collection page of LP copies whose enhancer is constructed
LpPage ==
  /\ products = [i \in Ids |-> Record(i, "lp")]
  /\ keyOf = [i \in Ids |-> KeyName(GroupKeyOf(products[i]))]
  /\ scoreOf = [i \in Ids |-> ScoreOf(products[i], SearchTerms)]
  /\ isSearchMode = FALSE
  /\ hasToken = TRUE
  /\ hasA11y = FALSE
  /\ sinkThrows = FALSE
  /\ badCard = NoBadCard
  /\ filterParams = NoParams
  /\ call = NoCall
  /\ Constructed

\* A visit to a collection page, seen from the filter form
FacetInit ==
  /\ LpPage
  /\ userUpdates = MaxFacetCalls
  /\ NoMoreSection

FacetNext ==
  \/ ApplyFilters
  \/ \E n \in FacetCalls : FacetResponse(n) \/ FacetFetchError(n) \/ FacetTextRead(n)

FacetSpec == FacetInit /\ [][FacetNext]_vars

\* ------------------------- MoreFromEnhancer.fetchAndGroupViaStorefrontAPI
\* "const limit = 100" and "products.length < 200", scaled: the cap is two pages
MoreLimit == 2
MoreCap == 4

\* the searches explored match up to MaxMoreResults products
MaxMoreResults == 7

\* searchProducts(searchQuery, cursor, limit): the results are the products
\* 1..moreTotal in this order
MorePage(cursor) ==
  LET last == Min(cursor + MoreLimit, moreTotal)
  IN  [nodes       |-> [i \in 1..(last - cursor) |-> cursor + i],
       hasNextPage |-> last < moreTotal,
       endCursor   |-> last]

\* ".filter((product) => product.id !== currentProductId)"
RECURSIVE WithoutCurrent(_)
WithoutCurrent(nodes) ==
  IF nodes = <<>> THEN <<>>
  ELSE IF Head(nodes) = currentProductId THEN WithoutCurrent(Tail(nodes))
       ELSE <<Head(nodes)>> \o WithoutCurrent(Tail(nodes))

\* "products.push(...pageProducts)"
PushAll(list, page) == list \o page

\* "while (hasNextPage && products.length < 200)"
MoreLoopGoesOn(hasNext, list) == hasNext /\ Len(list) < MoreCap

\* fetchAndGroupViaStorefrontAPI is called: the loop is entered and the first
\* page is requested
MoreStart ==
  /\ morePc = "idle"
  /\ morePc' = "fetch"
  /\ UNCHANGED <<moreTotal, currentProductId, moreProducts, moreCursor, moreHasNextPage>>
  /\ UNCHANGED <<pageVars, call, furtherCalls, facetVars, enhancerVars>>

\* The response of a page request arrives: the page without the current product
\* is pushed, and the loop ends or requests the next page
MoreFetchOk ==
  /\ morePc = "fetch"
  /\ LET resp == MorePage(moreCursor)
         list == PushAll(moreProducts, WithoutCurrent(resp.nodes))
     IN  /\ moreProducts' = list
         /\ moreHasNextPage' = resp.hasNextPage
         /\ moreCursor' = resp.endCursor
         /\ morePc' = IF MoreLoopGoesOn(resp.hasNextPage, list) THEN "fetch" ELSE "stopped"
  /\ UNCHANGED <<moreTotal, currentProductId>>
  /\ UNCHANGED <<pageVars, call, furtherCalls, facetVars, enhancerVars>>

\* The response holds no products: "if (!data.products || !data.products.edges) break"
MoreNoData ==
  /\ morePc = "fetch"
  /\ morePc' = "stopped"
  /\ UNCHANGED <<moreTotal, currentProductId, moreProducts, moreCursor, moreHasNextPage>>
  /\ UNCHANGED <<pageVars, call, furtherCalls, facetVars, enhancerVars>>

\* The request fails: the error is thrown again, and the outer catch block turns
\* to the Section Rendering API
MoreFetchFail ==
  /\ morePc = "fetch"
  /\ morePc' = "fallback"
  /\ UNCHANGED <<moreTotal, currentProductId, moreProducts, moreCursor, moreHasNextPage>>
  /\ UNCHANGED <<pageVars, call, furtherCalls, facetVars, enhancerVars>>

\* A product page with a "more from" section
MoreInit ==
  /\ moreTotal \in 0..MaxMoreResults
  /\ currentProductId \in {NoProduct} \cup 1..MaxMoreResults
  /\ currentProductId <= moreTotal
  /\ morePc = "idle"
  /\ moreProducts = <<>>
  /\ moreCursor = 0
  /\ moreHasNextPage = TRUE
  /\ LpPage
  /\ userUpdates = 0

MoreNext ==
  \/ MoreStart
  \/ MoreFetchOk
  \/ MoreNoData
  \/ MoreFetchFail

MoreSpec == MoreInit /\ [][MoreNext]_vars

\* ==================================================================== claims
\* the pages of the catalog a run has received and processed
PageOf(id) == ((id - 1) \div PageSize) + 1
ProcessedPages(r) ==
  IF run[r].pagesOk = 0 THEN {}
  ELSE IF isSearchMode THEN {1} ELSE 1..run[r].pagesOk

\* C1: within one run (one enhance() invocation, over all the pages it fetches) no
\* record id is contained in more than one emitted RenderItem, be it as a single,
\* as a group's main record or as a group member.
C1_NoRecordInTwoItems ==
  \A r \in Runs : \A i, j \in 1..Len(emitted[r]) :
    i < j => ItemIds(emitted[r][i]) \cap ItemIds(emitted[r][j]) = {}

\* C2: when record a is the only record with its key in its page and record b
\* with the same key arrives in a later page of the run, then once that later page
\* is processed the run has emitted exactly one group item holding a and b, and has
\* emitted neither of them as a single.
AloneInPage(a) ==
  \A c \in Ids : (c # a /\ PageOf(c) = PageOf(a)) => keyOf[c] # keyOf[a]

C2_CrossPageGroup ==
  \A r \in Runs : \A a, b \in Ids :
    ( /\ keyOf[a] # NoKey /\ keyOf[a] = keyOf[b]
      /\ AloneInPage(a)
      /\ PageOf(a) < PageOf(b)
      /\ PageOf(b) \in ProcessedPages(r) )
    => /\ Cardinality({i \in 1..Len(emitted[r]) :
                         /\ emitted[r][i].type = "group"
                         /\ {a, b} \subseteq ItemIds(emitted[r][i])}) = 1
       /\ \A i \in 1..Len(emitted[r]) :
            emitted[r][i].type = "single" => emitted[r][i].product \notin {a, b}

\* C3: once a newer run has been started, an earlier run neither appends to nor
\* reveals (nor clears) the live results container.
C3_OnlyLatestRunTouchesGrid ==
  [][ \A r \in Runs :
        (r < runCount /\ run'[r] # run[r] /\ liveGrid # NoGrid)
        => /\ gridCards'[liveGrid] = gridCards[liveGrid]
           /\ gridHidden'[liveGrid] = gridHidden[liveGrid] ]_vars

\* C4: a page response that arrives for a run abandoned in favour of a newer run is
\* discarded: it changes none of renderedProductIds, groupMap, productMap and
\* originalProductOrder, nothing is grouped from it and nothing is rendered.
C4_StaleResponseDiscarded ==
  [][ \A r \in Runs :
        (r < runCount /\ run[r].pc = "fetch" /\ run'[r] # run[r])
        => /\ UNCHANGED sessionVars
           /\ emitted'[r] = emitted[r]
           /\ gridCards' = gridCards ]_vars

\* a step in which the debounce timer fires / a filter-change signal is handled
FireStep == filterUpdateTimeout /\ ~filterUpdateTimeout'
SignalStep == pendingEvents' = pendingEvents - 1

\* the handler that resumes after the debounce finds a results grid
GridFound == handlerGrid # NoGrid \/ liveGrid # NoGrid

AllEmittedRendered(r) ==
  \A i \in 1..Len(emitted[r]) :
    emitted[r][i].product # badCard =>
      \E n \in 1..Len(gridCards[run[r].grid]) :
        gridCards[run[r].grid][n] = Card(r, emitted[r][i])

\* C6: when a page fetch fails after an earlier page of the run was fetched, no
\* further page is requested, the items of the earlier pages stay rendered (while
\* no newer run has taken over), and the run does not end through the fallback path.
C6_PartialResultsKept ==
  \A r \in Runs :
    (run[r].fetchFailed /\ run[r].pagesOk >= 1)
    => /\ run[r].pc = "done"
       /\ run[r].outcome # "fallback"
       /\ r = runCount => AllEmittedRendered(r)

\* C7: when the access token is missing, or the first page fetch fails, the run is
\* not retried and ends by revealing the pre-rendered fallback content.
C7_FatalRunFallsBack ==
  \A r \in Runs :
    (run[r].pc = "done" /\ run[r].pagesOk = 0 /\ run[r].pageCount >= 1
       /\ (~hasToken \/ run[r].fetchFailed))
    => /\ run[r].pageCount = 1
       /\ run[r].outcome = "fallback"

\* C8: in both modes a page request after the first is issued only when the
\* previous page has been received, and passes the endCursor of that page.
C8_NextPageUsesEndCursor ==
  \A r \in Runs :
    (run[r].pc = "fetch" /\ run[r].pageCount > 1)
    => /\ run[r].pagesOk = run[r].pageCount - 1
       /\ run[r].reqCursor = run[r].cursor

\* a step that starts a run which goes on to load products
RunStartStep == runCount' = runCount + 1 /\ run'[runCount'].outcome # "liquid"

NonDecreasing(idx) == \A i, j \in 1..Len(idx) : i < j => idx[i] <= idx[j]

RECURSIVE CardsOf(_, _)
\* the cards a run has appended to a grid, in document order
CardsOf(r, cards) ==
  IF cards = <<>> THEN <<>>
  ELSE IF Head(cards).run = r THEN <<Head(cards)>> \o CardsOf(r, Tail(cards))
       ELSE CardsOf(r, Tail(cards))

\* C10: over all pages of a run the items are emitted, and their cards stand in
\* the container, in non-decreasing originalIndex order.
C10_EmittedInOriginalOrder ==
  \A r \in Runs :
    /\ NonDecreasing([i \in 1..Len(emitted[r]) |-> emitted[r][i].originalIndex])
    /\ \A g \in Grids :
         LET mine == CardsOf(r, gridCards[g])
         IN  NonDecreasing([i \in 1..Len(mine) |-> mine[i].originalIndex])

\* C10 witness: a run has rendered the items of two pages
C10_Witness ==
  \E r \in Runs :
    /\ run[r].pagesOk = 2 /\ run[r].pc = "done"
    /\ Len(emitted[r]) >= 3
    /\ Len(CardsOf(r, gridCards[run[r].grid])) >= 3

\* ------------------------------------------------ steps of the grouping
\* a step in which run r receives a page and groups it
GroupStep(r) == run[r].pc = "fetch" /\ run'[r].pagesOk = run[r].pagesOk + 1

\* the records of the page run r is waiting for (in search mode: those the
\* client-side filter keeps)
PageRecords(r) == SeqToSet(PageProducts(CatalogPage(run[r].reqCursor).records))

\* the items the step adds to what run r has emitted
NewItems(r) == SubSeq(emitted'[r], Len(emitted[r]) + 1, Len(emitted'[r]))

\* no record other than p that the grouping can see (productMap and the page) has
\* p's key and is unrendered
NoUnrenderedSibling(r, p) ==
  \A q \in (SeqToSet(productMap) \cup PageRecords(r)) \ {p} :
    keyOf[q] = keyOf[p] => q \in renderedProductIds

EmittedAsSingle(r, p) ==
  \E n \in 1..Len(NewItems(r)) :
    NewItems(r)[n].type = "single" /\ NewItems(r)[n].product = p

NewGroupsHaveTwo(r) ==
  \A n \in 1..Len(NewItems(r)) :
    NewItems(r)[n].type = "group" => Cardinality(ItemIds(NewItems(r)[n])) >= 2

\* C11 as claimed: every item emitted as a group holds at least 2 records when it
\* is emitted, and an unrendered record whose key no other unrendered record
\* shares is emitted as a single.
C11_GroupsOfTwoLoneSingle ==
  [][ \A r \in Runs : GroupStep(r) =>
        /\ NewGroupsHaveTwo(r)
        /\ \A p \in PageRecords(r) \ renderedProductIds :
             NoUnrenderedSibling(r, p) => EmittedAsSingle(r, p) ]_vars

\* C11 as amended: every item emitted as a group holds at least 2 records when it
\* is emitted, and an unrendered record whose key no other unrendered record
\* shares and for whose key groupMap holds no group is emitted as a single.
C11_GroupsOfTwoLoneSingleNoGroup ==
  [][ \A r \in Runs : GroupStep(r) =>
        /\ NewGroupsHaveTwo(r)
        /\ \A p \in PageRecords(r) \ renderedProductIds :
             ( /\ NoUnrenderedSibling(r, p)
               /\ keyOf[p] # NoKey => groupMap[keyOf[p]] = NoGroup )
             => EmittedAsSingle(r, p) ]_vars

\* C11 witness: a run has emitted a group of two records and, from a later page,
\* a record with a key of its own as a single
C11_Witness ==
  \E r \in Runs : \E i, j \in 1..Len(emitted[r]) :
    /\ i < j
    /\ emitted[r][i].type = "group"
    /\ emitted[r][j].type = "single"
    /\ keyOf[emitted[r][j].product] \notin {NoKey, keyOf[emitted[r][i].product]}

\* some item the step adds holds record p
InNewItem(r, p) == \E n \in 1..Len(NewItems(r)) : p \in ItemIds(NewItems(r)[n])

\* C12: when the key of a record of the page that is not yet rendered (the
\* grouping passes over the rendered ones) matches a group of groupMap whose main
\* record is already in renderedProductIds, the record is in that group's member
\* list and in renderedProductIds after the page is grouped, and no item is
\* emitted for it.
C12_LateJoinerFolded ==
  [][ \A r \in Runs : GroupStep(r) =>
        \A p \in PageRecords(r) \ renderedProductIds :
          ( /\ keyOf[p] # NoKey
            /\ groupMap[keyOf[p]] # NoGroup
            /\ groupMap[keyOf[p]].mainProduct \in renderedProductIds )
          => /\ InSeq(p, groupMap'[keyOf[p]].allProducts)
             /\ groupMap'[keyOf[p]].mainProduct = groupMap[keyOf[p]].mainProduct
             /\ p \in renderedProductIds'
             /\ ~InNewItem(r, p) ]_vars

\* C12 witness: a record of a later page has joined a group that was emitted from
\* an earlier page: it is a member and rendered, and no item holds it
C12_Witness ==
  \E r \in Runs : \E p \in Ids :
    /\ PageOf(p) \in ProcessedPages(r) /\ PageOf(p) > 1
    /\ keyOf[p] # NoKey
    /\ groupMap[keyOf[p]] # NoGroup
    /\ InSeq(p, groupMap[keyOf[p]].variantProducts)
    /\ p \in renderedProductIds
    /\ \A i \in 1..Len(emitted[r]) : p \notin ItemIds(emitted[r][i])
    /\ \E i \in 1..Len(emitted[r]) : emitted[r][i].type = "group"

\* run r has received the page that holds record p (and, in search mode, the
\* client-side filter has kept the record)
Observed(r, p) ==
  /\ PageOf(p) \in ProcessedPages(r)
  /\ isSearchMode => MatchesFilters(products[p], filterParams)

\* record a is observed before record b: the pages come in catalog order, and
\* the records of a page in the order the page is processed in
ObservedBefore(a, b) ==
  \/ PageOf(a) < PageOf(b)
  \/ PageOf(a) = PageOf(b) /\ (IF isSearchMode THEN RankedBefore(a, b) ELSE a < b)

\* C13: the main record of every emitted group is the record the run observed
\* first among all the records it observed with the group's key.
C13_MainIsFirstObserved ==
  \A r \in Runs : \A i \in 1..Len(emitted[r]) :
    emitted[r][i].type = "group" =>
      \A q \in Ids :
        ( /\ q # emitted[r][i].product
          /\ keyOf[q] = keyOf[emitted[r][i].product]
          /\ Observed(r, q) )
        => ObservedBefore(emitted[r][i].product, q)

\* the emitted items of run r that hold record p
ItemsHolding(r, p) == {i \in 1..Len(emitted[r]) : p \in ItemIds(emitted[r][i])}

\* record p joined late a group that run r had emitted with p's key
LateJoiner(r, p) ==
  /\ keyOf[p] # NoKey
  /\ \E i \in 1..Len(emitted[r]) :
       /\ emitted[r][i].type = "group"
       /\ keyOf[emitted[r][i].product] = keyOf[p]

\* C14: every record a run has fetched is, once its page is grouped, either held
\* by exactly one item the run emitted or a late joiner of a group the run had
\* emitted; none is left out of both.
C14_EveryRecordCovered ==
  \A r \in Runs : \A p \in Ids :
    Observed(r, p) =>
      \/ Cardinality(ItemsHolding(r, p)) = 1
      \/ ItemsHolding(r, p) = {} /\ LateJoiner(r, p)

\* C15: when a filter-change signal is handled, the guard isEnhancing is cleared
\* and the results grid in the document is hidden by the time the handler has set
\* its debounce timer and starts to wait.
C15_GuardClearedGridHiddenBeforeWait ==
  [][ SignalStep => /\ ~isEnhancing'
                    /\ liveGrid # NoGrid => gridHidden'[liveGrid]
                    /\ filterUpdateTimeout' /\ timerAge' = 0 ]_vars

\* C15 witness: a signal has just been handled while a run is rendering into the
\* grid of the document: the guard is clear, that grid is hidden, the wait begins
C15_Witness ==
  /\ filterUpdateTimeout /\ timerAge = 0
  /\ ~isEnhancing
  /\ liveGrid # NoGrid /\ gridHidden[liveGrid]
  /\ \E r \in Runs : run[r].pc = "fetch" /\ run[r].grid = liveGrid

\* C16: from the step in which a filter-change signal hides the results grid until
\* a newly started run has cleared the grid's content, no step makes that grid
\* visible.
C16_HiddenUntilCleared ==
  [][ ( /\ filterUpdateTimeout
        /\ handlerGrid # NoGrid /\ handlerGrid = liveGrid
        /\ gridHidden[liveGrid]
        /\ liveGrid' = liveGrid )
      => \/ gridHidden'[liveGrid]
         \/ gridCards'[liveGrid] = <<>> ]_vars

\* a step in which run r ends through the catch block of enhance()
ErrorPathStep(r) == run[r].outcome # "fallback" /\ run'[r].outcome = "fallback"

\* C17: whenever a run ends through its error path, the results grid of the
\* document ends up visible and showing the server-rendered items, neither hidden
\* nor empty.
C17_ErrorPathShowsLiquid ==
  [][ \A r \in Runs :
        (ErrorPathStep(r) /\ liveGrid' # NoGrid)
        => /\ ~gridHidden'[liveGrid']
           /\ gridCards'[liveGrid'] = <<LiquidCard>> ]_vars

\* the cards of the items of a sequence that yield a card
RECURSIVE CardsFor(_, _)
CardsFor(r, items) ==
  IF items = <<>> THEN <<>>
  ELSE IF CardRenders(Head(items))
       THEN <<Card(r, Head(items))>> \o CardsFor(r, Tail(items))
       ELSE CardsFor(r, Tail(items))

\* the number of pages of the catalog
NumPages == (NumRecords + PageSize - 1) \div PageSize

\* C18: an item whose card throws or is null is skipped, and the other items of
\* its chunk and of all later chunks are rendered and appended: when the latest
\* run has ended, its cards in the grid are those of all the items it emitted but
\* the failing one, in order, and with no fetch failure it has received every page.
C18_FailedCardSkipped ==
  \A r \in Runs :
    (r = runCount /\ run[r].pc = "done" /\ run[r].grid # NoGrid)
    => /\ CardsOf(r, gridCards[run[r].grid]) = CardsFor(r, emitted[r])
       /\ (hasToken /\ ~run[r].fetchFailed /\ ~isSearchMode)
            => run[r].pagesOk = NumPages

\* C18 witness: the card of the first item of a chunk of two failed; the second
\* item of the chunk and an item of the next page have their cards in the grid
C18_Witness ==
  /\ runCount = 1 /\ run[1].pc = "done" /\ run[1].pagesOk = NumPages
  /\ ~isSearchMode
  /\ Len(emitted[1]) >= 3
  /\ emitted[1][1].product = badCard
  /\ Len(CardsOf(1, gridCards[1])) = Len(emitted[1]) - 1
  /\ CardsOf(1, gridCards[1])[1] = Card(1, emitted[1][2])

\* C19: an exception thrown by an announce method of the accessibility sink
\* neither prevents a run from starting (the debounce timer that fires with a
\* grid in the document starts one) nor sends a run to the fallback path (a run
\* takes it only for a cause that is not the sink's: no grid, or the failing
\* evaluation of the completion message).
C19_SinkFailureHarmless ==
  [][ sinkThrows =>
        /\ (FireStep /\ GridFound) => runCount' = runCount + 1
        /\ \A r \in Runs :
             ErrorPathStep(r) =>
               \/ run'[r].grid = NoGrid
               \/ Len(gridCards[run[r].grid]) > 0 ]_vars

\* C20: a run that has ended with at least one card rendered and without an
\* error has ended through its success path, where announceSuccess is invoked.
C20_SuccessAnnounced ==
  \A r \in Runs :
    ( /\ run[r].pc = "done"
      /\ hasToken /\ ~run[r].fetchFailed
      /\ run[r].grid # NoGrid
      /\ r = runCount
      /\ CardsOf(r, gridCards[run[r].grid]) # <<>> )
    => run[r].outcome = "success"

\* the debounce timer of the last signal has run out with no other signal after
\* it, and some run was started before
SignalSettled(n) ==
  /\ filterUpdateTimeout /\ TimerDue(timerAge)
  /\ runCount = n
  /\ \E r \in Runs : run[r].pc # "idle"

\* a run started after the first n has asked for its first page and has no answer
\* yet (without access token the request itself throws), with empty session state
FreshRunFetching(n) ==
  /\ ~filterUpdateTimeout
  /\ runCount > n
  /\ run[runCount].pageCount = 1 /\ run[runCount].pagesOk = 0
  /\ run[runCount].pc = "fetch" \/ ~hasToken
  /\ renderedProductIds = {} /\ groupMap = EmptyGroupMap
  /\ productMap = <<>> /\ originalProductOrder = EmptyOrder

RunCanStart ==
  /\ liveGrid # NoGrid /\ filterUpdates = userUpdates
  /\ ~AnnounceLoadingThrows

OnlyRun(r) ==
  /\ ActiveRuns = {r}
  /\ initCalled /\ filterUpdates = userUpdates
  /\ pendingEvents = 0 /\ ~filterUpdateTimeout

\* run r waits for its first page, with the session state of its start
FirstPageRequested(r) ==
  /\ run[r].pc = "fetch" /\ run[r].pagesOk = 0
  /\ renderedProductIds = {} /\ productMap = <<>>

\* record p is in a card of run r in the run's grid, or has joined a group whose
\* card run r has put in its grid
RecordRendered(r, p) ==
  LET cards == gridCards[run[r].grid]
  IN  \/ \E n \in 1..Len(cards) : cards[n].run = r /\ p \in ItemIds(cards[n])
      \/ /\ keyOf[p] # NoKey
         /\ groupMap[keyOf[p]] # NoGroup
         /\ InSeq(p, groupMap[keyOf[p]].variantProducts)
         /\ \E n \in 1..Len(cards) :
              /\ cards[n].run = r /\ cards[n].type = "group"
              /\ keyOf[cards[n].product] = keyOf[p]

\* run r has ended and every record of the catalog, up to the cap, is rendered
AllRecordsRendered(r) ==
  /\ run[r].pc = "done" /\ run[r].grid # NoGrid
  /\ \A p \in 1..Min(NumRecords, MaxProducts) : RecordRendered(r, p)

\* C22: a run that no other run overlaps and none of whose page requests fails
\* goes on until the catalog has no next page or the cap is reached, and every
\* record of the collection or of the search result (up to the cap) is in the end
\* rendered in an item of the run or folded into a rendered group.
C22_EveryRecordEventuallyRendered ==
  \A r \in Runs :
    (OnlyRun(r) /\ FirstPageRequested(r))
      ~> (run[r].fetchFailed \/ AllRecordsRendered(r))

\* C22 in collection mode only
CollectionRunRendersAll ==
  \A r \in Runs :
    (~isSearchMode /\ OnlyRun(r) /\ FirstPageRequested(r))
      ~> (run[r].fetchFailed \/ AllRecordsRendered(r))

\* a lone run has rendered every record of a catalog of two pages
CollectionRunRendersAllWitness ==
  \E r \in Runs : /\ OnlyRun(r) \/ ActiveRuns = {}
                  /\ run[r].pagesOk = NumPages /\ ~run[r].fetchFailed
                  /\ AllRecordsRendered(r)

\* C23: in a run no page request asks for more than PageSize records, the records
\* the run has accepted (totalFetched) never exceed the cap, and no page is
\* requested once the cap is reached.
C23_PageAndTotalBounded ==
  \A r \in Runs :
    /\ Len(CatalogPage(run[r].reqCursor).records) <= PageSize
    /\ run[r].totalFetched <= MaxProducts
    /\ run[r].pc = "fetch" => run[r].totalFetched < MaxProducts

\* C23 without filter parameters in the URL
UnfilteredTotalBounded ==
  filterParams = NoParams =>
    \A r \in Runs :
      /\ run[r].totalFetched <= MaxProducts
      /\ run[r].pc = "fetch" => run[r].totalFetched < MaxProducts

\* the names of the keys are the keys the grouping computes
KeysAreNamed == \A i \in Ids : KeyText(keyOf[i]) = GroupKeyOf(products[i])

\* the string is empty or holds blanks only
Blank(s) == \A i \in 1..Len(s) : s[i] = " "

\* the artist or the album metafield of record p is missing or blank
NoGroupingInfo(p) == Blank(products[p].artist) \/ Blank(products[p].albumTitle)

\* C24: a record whose artist or albumTitle is missing or empty after trimming is
\* emitted as a single when its page is grouped, every item that holds it is a
\* single, and it is never the main record or a member of a group, also when
\* other records share its artist.
C24_UntitledAlwaysSingle ==
  [][ \A p \in Ids : NoGroupingInfo(p) =>
        /\ \A r \in Runs :
             (GroupStep(r) /\ p \in PageRecords(r) \ renderedProductIds)
               => EmittedAsSingle(r, p)
        /\ \A r \in Runs : \A n \in 1..Len(emitted'[r]) :
             p \in ItemIds(emitted'[r][n]) => emitted'[r][n].type = "single"
        /\ \A k \in GroupKeys :
             groupMap'[k] # NoGroup => ~InSeq(p, groupMap'[k].allProducts) ]_vars

\* C24 witness: a record without album is emitted as a single by a run that has
\* emitted a group whose main record has the same artist
C24_Witness ==
  \E r \in Runs : \E i, j \in 1..Len(emitted[r]) :
    /\ emitted[r][i].type = "single"
    /\ NoGroupingInfo(emitted[r][i].product)
    /\ emitted[r][j].type = "group"
    /\ toLowerCase(trim(products[emitted[r][i].product].artist))
         = toLowerCase(trim(products[emitted[r][j].product].artist))

\* records p and q are copies of one release: equal trimmed, lower-cased artist
\* and album, equal derived format
SameRelease(p, q) ==
  /\ ~NoGroupingInfo(p) /\ ~NoGroupingInfo(q)
  /\ toLowerCase(trim(products[p].artist)) = toLowerCase(trim(products[q].artist))
  /\ toLowerCase(trim(products[p].albumTitle)) = toLowerCase(trim(products[q].albumTitle))
  /\ getFormat(products[p].productType) = getFormat(products[q].productType)

\* the unrendered records of the page of run r that are copies of p's release
Sharing(r, p) == {q \in PageRecords(r) \ renderedProductIds : SameRelease(p, q)}

\* the step emits exactly one group item for the records of copies, with their
\* number as displayed count, and no other item holds one of them
OneGroupItem(r, copies) ==
  /\ \E n \in 1..Len(NewItems(r)) :
       /\ NewItems(r)[n].type = "group"
       /\ ItemIds(NewItems(r)[n]) = copies
       /\ Card(r, NewItems(r)[n]).copies = Cardinality(copies)
  /\ Cardinality({n \in 1..Len(NewItems(r)) : ItemIds(NewItems(r)[n]) \cap copies # {}}) = 1

\* C25 as claimed: all the (unrendered) records of one page that share a group
\* key are emitted as exactly one group item, whose displayed copies count is the
\* number of those records.
C25_PageCopiesOneGroup ==
  [][ \A r \in Runs : GroupStep(r) =>
        \A p \in PageRecords(r) \ renderedProductIds :
          Cardinality(Sharing(r, p)) >= 2 => OneGroupItem(r, Sharing(r, p)) ]_vars

\* C25 as amended: the same, for a key for which the session holds no group yet.
C25_PageCopiesOneGroupIfNew ==
  [][ \A r \in Runs : GroupStep(r) =>
        \A p \in PageRecords(r) \ renderedProductIds :
          (Cardinality(Sharing(r, p)) >= 2 /\ groupMap[keyOf[p]] = NoGroup)
            => OneGroupItem(r, Sharing(r, p)) ]_vars

\* C25 witness: a run has rendered the card of a group of an LP and a 2xLP copy,
\* which shows 2 copies
C25_Witness ==
  /\ liveGrid # NoGrid
  /\ \E n \in 1..Len(gridCards[liveGrid]) :
    LET card == gridCards[liveGrid][n]
    IN  /\ card.type = "group" /\ card.copies = 2
        /\ Len(card.variantProducts) = 1
        /\ products[card.product].productType = <<"L", "P">>
        /\ products[card.variantProducts[1]].productType = <<"2", "x", "L", "P">>

\* ------------------------------------------------------------- getFormat
\* the tokens of the format table in the order of the table, and their formats
FormatTokens ==
  <<<<"1", "2">>, <<"1", "0">>, <<"7">>, <<"b", "o", "x">>, <<"l", "p">>, <<"c", "d">>,
    <<"c", "a", "s", "s", "e", "t", "t", "e">>, <<"e", "p">>, <<"d", "v", "d">>, <<"b", "l", "u">>, <<"v", "h", "s">>>>

TokenFormats ==
  <<<<"1", "2", "\"">>, <<"1", "0", "\"">>, <<"7", "\"">>, <<"B", "o", "x", " ", "S", "e", "t">>, <<"L", "P">>, <<"C", "D">>,
    <<"C", "a", "s", "s", "e", "t", "t", "e">>, <<"E", "P">>, <<"D", "V", "D">>, <<"B", "l", "u", "-", "r", "a", "y">>, <<"V", "H", "S">>>>

BoxFormats == {<<"L", "P", " ", "B", "o", "x">>, <<"C", "D", " ", "B", "o", "x">>, <<"B", "o", "x", " ", "S", "e", "t">>}

TokensFound(text) == {n \in DOMAIN FormatTokens : includes(text, FormatTokens[n])}

FirstFound(text) == CHOOSE n \in TokensFound(text) : \A m \in TokensFound(text) : n <= m

GetFormatReturned == call.fn = "getFormat" /\ call.done

\* C30: getFormat returns the format of the first token of the table, in the
\* order 12, 10, 7, box, lp, cd, cassette, ep, dvd, blu, vhs, that the lower-cased
\* productType contains (one of the box formats for box, the empty format when
\* it contains none); a productType that contains 12 and box derives 12".
C30_FirstTokenWins ==
  GetFormatReturned =>
    LET found == TokensFound(toLowerCase(call.productType))
        first == FirstFound(toLowerCase(call.productType))
    IN  /\ found = {} => call.result = <<>>
        /\ (found # {} /\ first = 4) => call.result \in BoxFormats
        /\ (found # {} /\ first # 4) => call.result = TokenFormats[first]
        /\ {1, 4} \subseteq found => call.result = <<"1", "2", "\"">>

\* C30 witness: getFormat has returned 12" for the productType Box 12"
C30_Witness ==
  /\ GetFormatReturned
  /\ call.productType = <<"B", "o", "x", " ", "1", "2", "\"">>
  /\ {1, 4} \subseteq TokensFound(toLowerCase(call.productType))
  /\ call.result = <<"1", "2", "\"">>

\* ------------------------------------------------- applyClientSideFilters
FacetCategories == {"productType", "styleGenre", "mediaCondition", "sleeveCondition"}

ValuesOf(params, c) ==
  IF c = "productType" THEN params.productType
  ELSE IF c = "styleGenre" THEN params.styleGenre
  ELSE IF c = "mediaCondition" THEN params.mediaCondition
  ELSE params.sleeveCondition

\* the record matches the value of the category
MatchesValue(product, c, value) ==
  IF c = "productType" THEN TypeMatches(toLowerCase(product.productType), value)
  ELSE IF c = "styleGenre" THEN ValueMatches(trim(toLowerCase(product.styleGenre)), value)
  ELSE IF c = "mediaCondition"
       THEN ValueMatches(trim(toLowerCase(product.mediaCondition)), value)
  ELSE ValueMatches(trim(toLowerCase(product.sleeveCondition)), value)

MatchesCategory(product, params, c) ==
  \E n \in DOMAIN ValuesOf(params, c) : MatchesValue(product, c, ValuesOf(params, c)[n])

PriceActive(params) == params.priceMin # NoBound \/ params.priceMax # NoBound

InPriceRange(product, params) ==
  /\ params.priceMin # NoBound => product.price >= params.priceMin
  /\ params.priceMax # NoBound => product.price <= params.priceMax

FiltersReturned == call.fn = "applyClientSideFilters" /\ call.done

Kept(product) == InSeq(product, call.result)

\* C26: applyClientSideFilters keeps a record if and only if the record matches
\* at least one value of every category that has a value (the price category has
\* the range of its bounds as its value); a category without value excludes no
\* record.
C26_AndAcrossOrWithin ==
  FiltersReturned =>
    \A i \in DOMAIN call.list :
      Kept(call.list[i]) <=>
        /\ \A c \in FacetCategories :
             ValuesOf(call.params, c) # <<>> => MatchesCategory(call.list[i], call.params, c)
        /\ PriceActive(call.params) => InPriceRange(call.list[i], call.params)

\* C26 witness: with two product types and a genre selected, a record that
\* matches the second type only is kept, a record of another genre is dropped, and
\* the categories without value have excluded nothing
C26_Witness ==
  /\ FiltersReturned
  /\ Len(call.params.productType) = 2 /\ call.params.styleGenre # <<>>
  /\ call.params.mediaCondition = <<>> /\ call.params.sleeveCondition = <<>>
  /\ ~PriceActive(call.params)
  /\ \E i, j \in DOMAIN call.list :
       /\ Kept(call.list[i])
       /\ ~MatchesValue(call.list[i], "productType", call.params.productType[1])
       /\ MatchesValue(call.list[i], "productType", call.params.productType[2])
       /\ ~Kept(call.list[j])
       /\ MatchesCategory(call.list[j], call.params, "productType")
       /\ ~MatchesCategory(call.list[j], call.params, "styleGenre")

\* ------------------------------------------------------- sortByRelevance
SortReturned == call.fn = "sortByRelevance" /\ call.done

\* the place of the record in the sequence
PlaceIn(list, product) == CHOOSE i \in DOMAIN list : list[i] = product

CallScore(product) == ScoreOf(product, call.searchTerms)

TitleOrder(a, b) == localeCompare(toLowerCase(a.title), toLowerCase(b.title))

\* C27: sortByRelevance returns the records of its input ordered by descending
\* score, records of equal score in ascending case-insensitive title order, and
\* records of equal score and title in the order of the input, so that the
\* input and the search terms determine the order.
C27_ScoreThenTitle ==
  SortReturned =>
    /\ Len(call.result) = Len(call.list)
    /\ SeqToSet(call.result) = SeqToSet(call.list)
    /\ \A i, j \in DOMAIN call.result : i < j =>
         LET a == call.result[i]
             b == call.result[j]
         IN  \/ CallScore(a) > CallScore(b)
             \/ /\ CallScore(a) = CallScore(b)
                /\ TitleOrder(a, b) < 0
             \/ /\ CallScore(a) = CallScore(b)
                /\ TitleOrder(a, b) = 0
                /\ PlaceIn(call.list, a) < PlaceIn(call.list, b)

\* C27 witness: "UP a" is returned before "up b", which has the same score and
\* came first in the input, and before a record of lower score
C27_Witness ==
  /\ SortReturned
  /\ Len(call.result) = 3
  /\ call.result[1].title = <<"U", "P", " ", "a">>
  /\ call.result[2].title = <<"u", "p", " ", "b">>
  /\ CallScore(call.result[1]) = CallScore(call.result[2])
  /\ PlaceIn(call.list, call.result[2]) < PlaceIn(call.list, call.result[1])
  /\ CallScore(call.result[2]) > CallScore(call.result[3])

\* the words of the search terms
TermWords == splitWords(trim(toLowerCase(call.searchTerms)))

\* no word of the search terms occurs in the text
NoTermIn(text) == ~some(TermWords, toLowerCase(text))

TagsText(product) == join([i \in DOMAIN product.tags |-> toLowerCase(product.tags[i])])

ExactTitle(product) == toLowerCase(product.title) = trim(toLowerCase(call.searchTerms))

TermsOnlyInTags(product) ==
  /\ every(TermWords, TagsText(product))
  /\ NoTermIn(product.title) /\ NoTermIn(product.vendor)
  /\ NoTermIn(product.productType) /\ NoTermIn(product.artist)

\* equal but for id, title and tags
OtherwiseEqual(a, b) ==
  [a EXCEPT !.id = 0, !.title = <<>>, !.tags = <<>>]
    = [b EXCEPT !.id = 0, !.title = <<>>, !.tags = <<>>]

\* C28: a record whose title is the query is returned before every record that
\* is equal to it but for title and tags and holds the search terms in its tags
\* only, however often the tags hold them.
C28_ExactTitleBeatsTags ==
  SortReturned =>
    \A i, j \in DOMAIN call.list :
      (/\ ExactTitle(call.list[i])
       /\ TermsOnlyInTags(call.list[j])
       /\ OtherwiseEqual(call.list[i], call.list[j]))
        => PlaceIn(call.result, call.list[i]) < PlaceIn(call.result, call.list[j])

ContainsQuery(product) ==
  includes(toLowerCase(product.title), trim(toLowerCase(call.searchTerms)))

TitleOccurrences(product) == countKeywordFrequency(toLowerCase(product.title), TermWords)

NoOtherMatch(product) ==
  /\ NoTermIn(product.vendor) /\ NoTermIn(TagsText(product))
  /\ NoTermIn(product.productType) /\ NoTermIn(product.artist)

IsVarious(product) == trim(toLowerCase(product.artist)) = <<"v", "a", "r", "i", "o", "u", "s">>

NonCompilation(product) ==
  /\ ~Blank(product.artist)
  /\ ~IsVarious(product)
  /\ ~startsWith(trim(toLowerCase(product.artist)), <<"v", "a", "r", "i", "o", "u", "s", " ">>)

FurtherCallStep == furtherCalls' = furtherCalls + 1

\* handleFilterUpdate has not run since the page was loaded
NoSignalReceived == burstSignals = 0

\* run r ends in the step and leaves no run behind
LastRunEnds(r) ==
  /\ run[r].pc # "done" /\ run'[r].pc = "done"
  /\ \A q \in Runs : run'[q].pc \in {"idle", "done"}

\* C31: when the pipeline is run a second time after the first run has ended,
\* with the same catalog, URL parameters and search terms and no filter change in
\* between, the second run takes place and ends with the same sequence of
\* RenderItems as the first.
C31_SecondRunSameItems ==
  [][ /\ ( /\ FurtherCallStep
           /\ runCount = 1 /\ run[1].pc = "done" /\ run[1].outcome = "success"
           /\ NoSignalReceived /\ filterUpdates = 0 )
        => runCount' = 2
      /\ ( /\ runCount' = 2 /\ LastRunEnds(2)
           /\ run'[1].pc = "done"
           /\ NoSignalReceived /\ filterUpdates = 0 )
        => emitted'[2] = emitted'[1] ]_vars

\* C33: a further enhance() call made while a run is active and no filter-change
\* signal has been received starts no run, sends no request, and leaves the
\* results container, the session state and the emitted items as they are.
C33_CallWhileActiveReturns ==
  [][ (FurtherCallStep /\ ActiveRuns # {} /\ NoSignalReceived)
        => UNCHANGED <<runCount, run, gridCards, gridHidden, sessionVars, emitted>> ]_vars

\* C33 witness: enhance() has been called again while the first run, which goes
\* on, had rendered cards; no signal has been received and there is one run
C33_Witness ==
  /\ furtherCalls = 1 /\ NoSignalReceived
  /\ runCount = 1 /\ run[1].pc = "pageDelay"
  /\ gridCards[run[1].grid] # <<>>

\* C34: when a run ends and no other run is going on, isEnhancing is false, and
\* an enhance() call made after a run has ended, while no run is going on and no
\* debounce timer is pending, starts a run.
C34_GuardReleasedAtEnd ==
  [][ /\ \A r \in Runs : LastRunEnds(r) => ~isEnhancing'
      /\ ( /\ FurtherCallStep
           /\ runCount >= 1 /\ ActiveRuns = {}
           /\ ~filterUpdateTimeout /\ pendingEvents = 0 )
        => runCount' = runCount + 1 ]_vars

\* ------------------------------------------------------- container child count
\* the last chunk of run r is appended in the step: the run leaves its loop
AllChunksRendered(r) ==
  /\ run[r].pc \notin {"idle", "done"} /\ run'[r].pc = "done"
  /\ run'[r].grid # NoGrid

\* C32: when the last chunk of a run has been rendered, the results container
\* has as many children as the run has emitted items whose card render succeeded.
C32_ChildCountIsRenderedItems ==
  [][ \A r \in Runs :
        AllChunksRendered(r)
        => Len(gridCards'[run'[r].grid]) = Len(CardsFor(r, emitted'[r])) ]_vars

\* the same for a run no other run has shared the page with
LoneRunChildCount ==
  [][ \A r \in Runs :
        (AllChunksRendered(r) /\ runCount = 1)
        => Len(gridCards'[run'[r].grid]) = Len(CardsFor(r, emitted'[r])) ]_vars

\* --------------------------------------------------- the end of the fetch loop
\* C35: loadProductsProgressively terminates: a run that waits for the response
\* of a page request ends sooner or later, whatever the pages hold and whatever
\* the client-side filter removes.
C35_LoopTerminates ==
  \A r \in Runs : (run[r].pc = "fetch") ~> (run[r].pc = "done")

\* the loop of a collection page, and of a search page whose URL has no filter
\* parameters, terminates
UnfilteredLoopTerminates ==
  \A r \in Runs :
    (run[r].pc = "fetch" /\ filterParams = NoParams) ~> (run[r].pc = "done")

\* ------------------------------------------- the grid applyFilters has hidden
\* the results hold the grid g that applyFilters has inserted and hidden
HiddenByFacetFilters(g) == liveGrid = g /\ g # 1 /\ gridHidden[g]

\* C38: a results grid that FacetFilters.applyFilters has inserted and hidden is
\* made visible again sooner or later (unless a later response replaces it).
C38_HiddenGridShownAgain ==
  \A g \in Grids : HiddenByFacetFilters(g) ~> (~gridHidden[g] \/ liveGrid # g)

\* the same on a page whose accessibility sink does not throw
HiddenGridShownUnlessSinkThrows ==
  \A g \in Grids :
    (HiddenByFacetFilters(g) /\ ~AnnounceLoadingThrows) ~> (~gridHidden[g] \/ liveGrid # g)

\* ------------------------------------------------ overlapping filter requests
\* the latest call whose response has replaced the results, NoRequest if none
LastApplied ==
  IF \E n \in FacetCalls : facetRequests[n] = "applied"
  THEN CHOOSE n \in FacetCalls :
         /\ facetRequests[n] = "applied"
         /\ \A m \in FacetCalls : facetRequests[m] = "applied" => m <= n
  ELSE NoRequest

\* C36: a response never replaces the filter form or the results unless it answers
\* the latest applyFilters call made, and the results shown are those of the
\* latest call made whose response was applied.
C36_OnlyLatestRequestApplies ==
  [][ /\ formOf' # formOf => formOf' = Issued
      /\ resultsOf' # resultsOf => resultsOf' = Issued
      /\ resultsOf' = LastApplied' ]_vars

\* C36 witness: the request of the first call was aborted by the second call,
\* whose response fills the form and the results
C36_Witness ==
  /\ facetRequests[1] = "aborted" /\ facetRequests[2] = "applied"
  /\ formOf = 2 /\ resultsOf = 2

\* C37: while a filter request is in flight the results element carries the
\* class is-loading.
C37_LoadingWhileInFlight == InFlight # {} => resultsLoading

\* ----------------------------------------------- the "more from" product list
\* C39: when the fetch loop of MoreFromEnhancer has stopped, the accumulated
\* product list holds at most 200 products (MoreCap, two pages of MoreLimit).
C39_AtMostCapProducts == morePc = "stopped" => Len(moreProducts) <= MoreCap

\* the list never holds a whole page more than the cap
MoreProductsBounded == Len(moreProducts) <= MoreCap + MoreLimit - 1

\* --------------------------------------------- the two grouping functions
\* the groups of the items groupProductsIncremental returned, with the format
\* the function gives a group: getFormat of the product that founded it
IncrementalGroups ==
  {[mainProduct     |-> item.product,
    variantProducts |-> item.variantProducts,
    format          |-> getFormat(products[item.product].productType)] :
     item \in {it \in SeqToSet(call.result.incremental) : it.type = "group"}}

IncrementalSingles ==
  {item.product : item \in {it \in SeqToSet(call.result.incremental) : it.type = "single"}}

\* the batch has been grouped by both functions
BatchGrouped == call.fn = "groupProducts" /\ call.done

\* an artist or album of the batch is written with a vertical bar
BarInNames ==
  \E i \in Ids : InSeq("|", products[i].artist) \/ InSeq("|", products[i].albumTitle)

\* C40: for a batch of products with unique ids, MoreFromEnhancer.groupProducts
\* and groupProductsIncremental yield the same groups (main product, member
\* products and format) and the same set of singles.
C40_SameGroupsAndSingles ==
  BatchGrouped =>
    /\ SeqToSet(call.result.more.groups) = IncrementalGroups
    /\ SeqToSet(call.result.more.singles) = IncrementalSingles

\* the same for batches whose artists and albums are written without a bar
SameGroupsWithoutBar ==
  (BatchGrouped /\ ~BarInNames) =>
    /\ SeqToSet(call.result.more.groups) = IncrementalGroups
    /\ SeqToSet(call.result.more.singles) = IncrementalSingles

\* a batch without a bar that yields a group of three, a group of two: reached
SameGroupsWithoutBarWitness ==
  /\ BatchGrouped /\ ~BarInNames
  /\ Len(call.result.more.groups) = 2
  /\ \E n \in 1..2 : Len(call.result.more.groups[n].variantProducts) = 2

====
